---- MODULE Spec2Model ----
(***************************************************************************)
(* HexGlobe: clock-position neighbours (models/tile.py), the resolution    *)
(* ladder built by Tile.__init__ and the grid embedding of                 *)
(* GET /api/tiles/{tile_id}/grid (api/tiles.py).                           *)
(*                                                                         *)
(* The h3 library is the external grid index.  It is modelled by a planar  *)
(* chart of an aperture-7 hexagonal hierarchy:                             *)
(*   - a cell identifier is <<res, x, y>>: its resolution and the axial    *)
(*     coordinates of its centroid in the finest lattice;                  *)
(*   - the six lattice directions Dir(0..5) are listed clockwise, Dir(0)   *)
(*     pointing north;                                                     *)
(*   - a pentagon is the origin of a lattice from which the 60-degree      *)
(*     sector between Dir(0) and Dir(1) is cut out, the two cut edges      *)
(*     being glued;                                                        *)
(*   - latitude and longitude are a slightly tilted linear chart of the    *)
(*     lattice, so that no two cells share a latitude or a longitude.      *)
(***************************************************************************)
EXTENDS Integers, Sequences, FiniteSets, TLC

\* ------------------------------------------------------------------ bounds
MaxDim == 3        \* width and height range over 1..MaxDim
MaxRes == 3        \* resolutions are 0..MaxRes (0..15 in h3)
NumOrders == 2     \* enumeration orders tried for a Python set
MaxPentDist == 3   \* centres are taken up to this ring distance from the pentagon
Tilt == 32         \* slope of the latitude/longitude chart

\* -------------------------------------------------------- lattice algebra
Dir(j) ==
  CASE j = 0 -> <<1, 0>>
    [] j = 1 -> <<0, 1>>
    [] j = 2 -> <<-1, 1>>
    [] j = 3 -> <<-1, 0>>
    [] j = 4 -> <<0, -1>>
    [] j = 5 -> <<1, -1>>

VAdd(a, b) == <<a[1] + b[1], a[2] + b[2]>>
VSub(a, b) == <<a[1] - b[1], a[2] - b[2]>>
VScale(k, a) == <<k * a[1], k * a[2]>>
\* product of two Eisenstein integers a1 + a2*z, z = exp(i*pi/3)
VMul(a, b) == <<a[1] * b[1] - a[2] * b[2], a[1] * b[2] + a[2] * b[1] + a[2] * b[2]>>
VNorm(a) == a[1] * a[1] + a[1] * a[2] + a[2] * a[2]
\* rotation by 60 degrees clockwise (Dir(j) -> Dir(j+1)) and back
RotCW(a) == <<-a[2], a[1] + a[2]>>
RotCCW(a) == <<a[1] + a[2], -a[1]>>
Abs(n) == IF n < 0 THEN -n ELSE n

RECURSIVE Pow7(_)
Pow7(n) == IF n = 0 THEN 1 ELSE 7 * Pow7(n - 1)

\* generator of the lattice k levels coarser than the finest one: each level
\* is scaled by sqrt(7) and turned by about 19 degrees, alternately left and
\* right, so that two levels make a factor 7
Gen(k) == IF k % 2 = 0 THEN <<Pow7(k \div 2), 0>>
          ELSE VMul(<<Pow7(k \div 2), 0>>, <<2, 1>>)

\* --------------------------------------------------------- cell identifiers
\* the string "pentagon" that fills the missing slot of a pentagon
PentagonMarker == <<-1, 0, 0>>
NoCell == <<-2, 0, 0>>

MkCell(res, p) == <<res, p[1], p[2]>>
Pos(id) == <<id[2], id[3]>>
h3_get_resolution(id) == id[1]
StepOf(res) == Gen(MaxRes - res)

\* the sector cut out of a pentagon world, and its clockwise edge
InCut(p) == p[1] >= 1 /\ p[2] >= 0
OnSeamRay(p) == p[1] = 0 /\ p[2] >= 1

h3_is_pentagon(w, id) == w.pent /\ id[1] = MaxRes /\ Pos(id) = <<0, 0>>

\* the neighbour of id in lattice direction j, NoCell when there is none
NbrAt(w, id, j) ==
  LET p == Pos(id)
      n == VAdd(p, VMul(StepOf(id[1]), Dir(j)))
  IN IF ~(w.pent /\ id[1] = MaxRes) \/ ~InCut(n) THEN MkCell(id[1], n)
     ELSE IF p = <<0, 0>> THEN NoCell
     ELSE IF OnSeamRay(p) THEN MkCell(id[1], RotCCW(n))
     ELSE MkCell(id[1], RotCW(n))

Nbrs(w, id) == {NbrAt(w, id, j) : j \in 0..5} \ {NoCell}

RECURSIVE k_ring(_, _, _)
k_ring(w, id, k) ==
  IF k = 0 THEN {id}
  ELSE LET S == k_ring(w, id, k - 1) IN S \cup UNION {Nbrs(w, s) : s \in S}

\* ------------------------------------------- enumeration order of a set
CellKey(id) == (id[2] + 500) * 1000 + (id[3] + 500)

RECURSIVE SortedSeq(_)
SortedSeq(S) ==
  IF S = {} THEN <<>>
  ELSE LET m == CHOOSE c \in S : \A d \in S : CellKey(c) <= CellKey(d)
       IN <<m>> \o SortedSeq(S \ {m})

Reverse(s) == [i \in 1..Len(s) |-> s[Len(s) + 1 - i]]
RotateSeq(s, n) ==
  IF Len(s) = 0 THEN s
  ELSE [i \in 1..Len(s) |-> s[((i - 1 + n) % Len(s)) + 1]]

\* the order in which Python iterates a set of cells: it is fixed for one
\* set object but not by the language; `order` selects one
SetOrder(S, order) ==
  LET base == SortedSeq(S)
      r == RotateSeq(base, order \div 2)
  IN IF order % 2 = 0 THEN r ELSE Reverse(r)

\* ------------------------------------------------------------- geography
\* a geographic point is <<lat, lng>>; chart points are in thirds of a
\* lattice step so that the vertices of a cell are chart points
ChartLat(w, q) == 2 * (Tilt * (2 * q[1] + q[2]) + q[2]) + w.lat0
ChartLng(q) == 2 * (Tilt * q[2] - (2 * q[1] + q[2]))
Geo(w, q) == <<ChartLat(w, q), ChartLng(q)>>

\* inverse of the chart on differences of latitude and longitude
ChartVec(dlat, dlng) ==
  LET A == dlat \div 2
      B == dlng \div 2
      N == Tilt * Tilt + 1
      s == (Tilt * A - B) \div N
      e == (A + Tilt * B) \div N
  IN <<(s - e) \div 2, e>>

h3_to_geo(w, id) ==
  IF id = w.warp THEN Geo(w, w.warpTo) ELSE Geo(w, VScale(3, Pos(id)))

\* vertex between Dir(j) and Dir(j+1), in chart points relative to the centre
Vertex(res, j) == VMul(StepOf(res), VAdd(Dir(j), Dir((j + 1) % 6)))

\* boundary vertices in counter-clockwise order, starting at vertex w.bstart;
\* a pentagon has five, the fifth facing the cut
h3_to_geo_boundary(w, id) ==
  LET c == VScale(3, Pos(id))
  IN IF h3_is_pentagon(w, id)
     THEN [i \in 1..5 |->
             LET j == (w.bstart + 5 - (i - 1)) % 5
             IN IF j = 0 THEN Geo(w, VAdd(c, VScale(2, Dir(0))))
                ELSE Geo(w, VAdd(c, Vertex(id[1], j)))]
     ELSE [i \in 1..6 |-> Geo(w, VAdd(c, Vertex(id[1], (w.bstart + 6 - (i - 1)) % 6)))]

\* the cell of resolution res whose centre is nearest to the chart point:
\* the centres at equal distance are candidates, w.tie picks among them
NearestCentres(res, q) ==
  LET g == StepOf(res)
      n == VNorm(g)
      t == VMul(q, IF (MaxRes - res) % 2 = 0 THEN g ELSE VMul(<<Pow7((MaxRes - res) \div 2), 0>>, <<3, -1>>))
      b == <<t[1] \div (3 * n), t[2] \div (3 * n)>>
      cands == {VMul(g, VAdd(b, <<i, j>>)) : i \in -1..2, j \in -1..2}
      d(c) == VNorm(VSub(q, VScale(3, c)))
  IN {c \in cands : \A c2 \in cands : d(c) <= d(c2)}

geo_to_h3(w, lat, lng, res) ==
  LET v == ChartVec(lat - w.lat0, lng)
      q == <<v[1], v[2]>>
      near == NearestCentres(res, q)
      lo == CHOOSE c \in near : \A c2 \in near : CellKey(MkCell(res, c)) <= CellKey(MkCell(res, c2))
      hi == CHOOSE c \in near : \A c2 \in near : CellKey(MkCell(res, c)) >= CellKey(MkCell(res, c2))
  IN MkCell(res, IF w.tie = 0 THEN lo ELSE hi)

\* the parent is the coarser cell that has the cell among its seven children:
\* the one whose centre is within one step; ancestors are parents of parents
RECURSIVE h3_to_parent(_, _)
h3_to_parent(id, res) ==
  IF res >= id[1] THEN id
  ELSE LET near == NearestCentres(id[1] - 1, VScale(3, Pos(id)))
       IN h3_to_parent(MkCell(id[1] - 1, CHOOSE c \in near : TRUE), res)

h3_to_children(id, res) ==
  {MkCell(res, Pos(id))} \cup {MkCell(res, VAdd(Pos(id), VMul(StepOf(res), Dir(j)))) : j \in 0..5}

\* ------------------------------------------------------------ BearingMath
\* math.degrees(math.atan2(y, x)) on the chart: the angle grows clockwise
\* from Dir(0), linearly between two lattice directions; in (-180, 180]
RECURSIVE SectorOf(_, _)
SectorOf(v, j) ==
  IF j = 5 \/ (v[1] > 0 /\ v[2] >= 0) THEN <<j, v[1], v[2]>>
  ELSE SectorOf(RotCCW(v), j + 1)

Atan2Degrees(v) ==
  IF v = <<0, 0>> THEN 0
  ELSE LET s == SectorOf(v, 0)
           a == 60 * s[1] + (60 * s[3]) \div (s[2] + s[3])
       IN IF a > 180 THEN a - 360 ELSE a

_calculate_bearing(lat1, lng1, lat2, lng2) ==
  LET bearing == Atan2Degrees(ChartVec(lat2 - lat1, lng2 - lng1))
  IN (bearing + 360) % 360

\* ----------------------------------------------------- NeighborPositioner
position_names ==
  <<"bottom_middle", "bottom_left", "top_left", "top_middle", "top_right", "bottom_right">>

Positions == {position_names[i] : i \in 1..6}

\* list.sort / sorted with a key, of <<item, key>> pairs: the sort is stable,
\* an element goes after every smaller one and every equal one before it
StableSort(s) ==
  LET rank(i) == Cardinality({j \in 1..Len(s) : s[j][2] < s[i][2] \/ (s[j][2] = s[i][2] /\ j <= i)})
  IN [k \in 1..Len(s) |-> s[CHOOSE i \in 1..Len(s) : rank(i) = k]]

\* index (from 0) of the boundary edge whose mid-latitude is nearest to the
\* equator; the first one wins a tie.  Twice the mid-latitude is compared.
RECURSIVE EquatorEdge(_, _, _, _)
EquatorEdge(boundary, i, min_lat_diff, equator_edge_idx) ==
  IF i >= Len(boundary) THEN equator_edge_idx
  ELSE LET next_i == (i + 1) % Len(boundary)
           edge_lat == boundary[i + 1][1] + boundary[next_i + 1][1]
           lat_diff == Abs(edge_lat)
       IN IF min_lat_diff < 0 \/ lat_diff < min_lat_diff
          THEN EquatorEdge(boundary, i + 1, lat_diff, i)
          ELSE EquatorEdge(boundary, i + 1, min_lat_diff, equator_edge_idx)

RefVertexIdx(in_northern_hemisphere, equator_edge_idx, n) ==
  IF in_northern_hemisphere THEN (equator_edge_idx + 1) % n ELSE equator_edge_idx

\* lines 212-213: the 1-ring in the order the set is iterated, the cell
\* itself removed
NeighborsOf_keep_self(w, tile_id, order) == SetOrder(k_ring(w, tile_id, 1), order)

NeighborsOf(w, tile_id, order) ==
  SelectSeq(SetOrder(k_ring(w, tile_id, 1), order), LAMBDA idx : idx # tile_id)

\* lines 252-260: <<neighbor, rel_bearing>> for each neighbour, in list order
NeighborBearings(w, tile_id, neighbors, ref_bearing) ==
  LET center == h3_to_geo(w, tile_id)
  IN [i \in 1..Len(neighbors) |->
        LET n == h3_to_geo(w, neighbors[i])
            bearing == _calculate_bearing(center[1], center[2], n[1], n[2])
        IN <<neighbors[i], (bearing - ref_bearing) % 360>>]

\* line 263: neighbor_bearings.sort(key=lambda x: x[1])
SortByBearing_unsorted(neighbor_bearings) == neighbor_bearings

SortByBearing(neighbor_bearings) == StableSort(neighbor_bearings)

\* lines 222-250: the bearing of the reference vertex from the centre
RefBearing(w, tile_id) ==
  LET center == h3_to_geo(w, tile_id)
      boundary == h3_to_geo_boundary(w, tile_id)
      in_northern_hemisphere == center[1] > 0
      equator_edge_idx == EquatorEdge(boundary, 0, -1, 0)
      ref_vertex_idx == RefVertexIdx(in_northern_hemisphere, equator_edge_idx, Len(boundary))
      ref == boundary[ref_vertex_idx + 1]
  IN _calculate_bearing(center[1], center[2], ref[1], ref[2])

\* lines 276-290: the positions a pentagon leaves empty; the first of them
\* gets the marker
MarkMissing_none(is_pentagon, placed) == {}

MarkMissing(is_pentagon, placed) ==
  LET missing == {i \in 1..6 : position_names[i] \notin placed}
      first_missing == CHOOSE i \in missing : \A k \in missing : i <= k
  IN IF is_pentagon /\ missing # {} THEN {position_names[first_missing]} ELSE {}

\* the mapping position -> cell of Tile._get_positioned_neighbors; `order`
\* is the order in which the set returned by h3.k_ring is iterated
_get_positioned_neighbors(w, tile_id, order) ==
  LET neighbors == NeighborsOf(w, tile_id, order)
      ref_bearing == RefBearing(w, tile_id)
      sorted == SortByBearing(NeighborBearings(w, tile_id, neighbors, ref_bearing))
      placed == {position_names[i] : i \in 1..(IF Len(sorted) < 6 THEN Len(sorted) ELSE 6)}
      marked == MarkMissing(h3_is_pentagon(w, tile_id), placed)
  IN [p \in placed \cup marked |->
        IF p \in placed THEN sorted[CHOOSE i \in 1..6 : position_names[i] = p][1]
        ELSE PentagonMarker]

\* ------------------------------------------------------------------ Tile
\* lines 176-193: the identifier of the location at every resolution
ResolutionIds_parent_at_own(w, id) ==
  LET geo == h3_to_geo(w, id)
  IN [res \in 0..MaxRes |->
        IF res = h3_get_resolution(id) THEN h3_to_parent(id, h3_get_resolution(id) - 1)
        ELSE geo_to_h3(w, geo[1], geo[2], res)]

ResolutionIds_lng_lat(w, id) ==
  LET geo == h3_to_geo(w, id)
  IN [res \in 0..MaxRes |->
        IF res = h3_get_resolution(id) THEN id
        ELSE geo_to_h3(w, geo[2], geo[1], res)]

ResolutionIds(w, id) ==
  LET geo == h3_to_geo(w, id)
  IN [res \in 0..MaxRes |->
        IF res = h3_get_resolution(id) THEN id
        ELSE geo_to_h3(w, geo[1], geo[2], res)]

\* Tile.__init__ (through HexagonTile / PentagonTile): the derived grid data
Tile__init__(w, id, order) ==
  LET resolution == h3_get_resolution(id)
  IN [id |-> id,
      resolution |-> resolution,
      parent_id |-> IF resolution > 0 THEN h3_to_parent(id, resolution - 1) ELSE NoCell,
      children_ids |-> IF resolution < MaxRes THEN h3_to_children(id, resolution + 1) ELSE {},
      neighbor_ids |-> _get_positioned_neighbors(w, id, order),
      resolution_ids |-> ResolutionIds(w, id)]

\* Tile.load / load_from_split_files: None (found = FALSE) without a static
\* file, else the tile whose grid data is the stored static data
Tile_load(store, id) ==
  IF id \in DOMAIN store THEN [found |-> TRUE, tile |-> store[id]]
  ELSE [found |-> FALSE, tile |-> NoCell]

\* a save_static that leaves the neighbours out of the static file
save_static_no_neighbors(store, tile) ==
  [k \in DOMAIN store \cup {tile.id} |->
     IF k = tile.id THEN [tile EXCEPT !.neighbor_ids = [p \in {} |-> NoCell]] ELSE store[k]]

\* tile.save_static(): the static file of the tile is (re)written
save_static(store, tile) ==
  [k \in DOMAIN store \cup {tile.id} |-> IF k = tile.id THEN tile ELSE store[k]]

\* a tile just created and the static store after its save_static()
CreatedAndSaved(store, created) == [tile |-> created, store |-> save_static(store, created)]

\* "tile = Tile.load(...); if tile is None: create it and save_static()":
\* the tile the handler works with and the static store afterwards
LoadOrCreate(w, store, id, order) ==
  IF Tile_load(store, id).found THEN [tile |-> Tile_load(store, id).tile, store |-> store]
  ELSE CreatedAndSaved(store, Tile__init__(w, id, order))

\* ------------------------------------------- Python dict, insertion-ordered
\* a dict is a sequence of <<key, value>> pairs with distinct keys
DictHas(d, k) == \E i \in 1..Len(d) : d[i][1] = k
DictGet(d, k) == d[CHOOSE i \in 1..Len(d) : d[i][1] = k][2]
DictPut(d, k, v) ==
  IF DictHas(d, k) THEN [i \in 1..Len(d) |-> IF d[i][1] = k THEN <<k, v>> ELSE d[i]]
  ELSE Append(d, <<k, v>>)
DictKeys(d) == {d[i][1] : i \in 1..Len(d)}

\* ------------------------------------------------------------ GridEmbedder
\* the even table with the offsets of top_left and top_right exchanged
relative_coords_swapped ==
  [bottom_middle |-> <<-1, 0>>, bottom_left |-> <<-1, -1>>, top_left |-> <<0, 1>>,
   top_middle |-> <<1, 0>>, top_right |-> <<0, -1>>, bottom_right |-> <<-1, 1>>]

relative_coords_for_even_columns ==
  [bottom_middle |-> <<-1, 0>>, bottom_left |-> <<-1, -1>>, top_left |-> <<0, -1>>,
   top_middle |-> <<1, 0>>, top_right |-> <<0, 1>>, bottom_right |-> <<-1, 1>>]

relative_coords_for_odd_columns ==
  [bottom_middle |-> <<-1, 0>>, bottom_left |-> <<0, -1>>, top_left |-> <<1, -1>>,
   top_middle |-> <<1, 0>>, top_right |-> <<1, 1>>, bottom_right |-> <<0, 1>>]

inverse_positions ==
  [bottom_middle |-> "top_middle", bottom_left |-> "top_right", top_left |-> "bottom_right",
   top_middle |-> "bottom_middle", top_right |-> "bottom_left", bottom_right |-> "top_left"]

Max(a, b) == IF a > b THEN a ELSE b
Min(a, b) == IF a < b THEN a ELSE b

\* the items of a neighbor_ids dict, in insertion order
NeighborItems(neighbor_ids) ==
  SelectSeq(position_names, LAMBDA p : p \in DOMAIN neighbor_ids)

\* k_ring_size = max(width, height) // 2 + 1
KRingSize(w_, h_) == Max(w_, h_) \div 2 + 1

\* lines 493-503: the geographic algorithm is used for a pentagon centre or
\* when the k-ring of the centre holds a pentagon
UseGeographic(w, id, w_, h_) ==
  h3_is_pentagon(w, id)
  \/ \E c \in k_ring(w, id, KRingSize(w_, h_)) : h3_is_pentagon(w, c)

\* the odd table for positive odd columns only, as with a remainder that
\* takes the sign of the column
OffsetTable_truncating(col) ==
  IF col > 0 /\ col % 2 = 1 THEN relative_coords_for_odd_columns
  ELSE relative_coords_for_even_columns

\* the even- or odd-column table for the column of the source coordinate
OffsetTable(col) ==
  IF col % 2 = 0 THEN relative_coords_for_even_columns ELSE relative_coords_for_odd_columns

\* the same loop without the test of lines 729-732
RECURSIVE PlaceNeighbors_overwrite(_, _, _, _, _)
PlaceNeighbors_overwrite(acc, coords, neighbor_ids, items, i) ==
  IF i > Len(items) THEN acc
  ELSE LET position == items[i]
           neighbor_id == neighbor_ids[position]
           off == OffsetTable(coords[2])[position]
           relative_coords == <<coords[1] + off[1], coords[2] + off[2]>>
       IN IF neighbor_id = PentagonMarker
          THEN PlaceNeighbors_overwrite(acc, coords, neighbor_ids, items, i + 1)
          ELSE PlaceNeighbors_overwrite([acc EXCEPT !.grid = DictPut(@, relative_coords, neighbor_id)],
                                        coords, neighbor_ids, items, i + 1)

\* the same loop going on to the next neighbour at an occupied coordinate
RECURSIVE PlaceNeighbors_skip_occupied(_, _, _, _, _)
PlaceNeighbors_skip_occupied(acc, coords, neighbor_ids, items, i) ==
  IF i > Len(items) THEN acc
  ELSE LET position == items[i]
           neighbor_id == neighbor_ids[position]
           off == OffsetTable(coords[2])[position]
           relative_coords == <<coords[1] + off[1], coords[2] + off[2]>>
       IN IF neighbor_id = PentagonMarker
             \/ (DictHas(acc.grid, relative_coords)
                 /\ DictGet(acc.grid, relative_coords) # neighbor_id)
          THEN PlaceNeighbors_skip_occupied(acc, coords, neighbor_ids, items, i + 1)
          ELSE PlaceNeighbors_skip_occupied(
                 [acc EXCEPT !.grid = DictPut(@, relative_coords, neighbor_id)],
                 coords, neighbor_ids, items, i + 1)

\* the same loop throwing away what was placed when it meets an occupied
\* coordinate: only the centre is left
RECURSIVE PlaceNeighbors_reset(_, _, _, _, _)
PlaceNeighbors_reset(acc, coords, neighbor_ids, items, i) ==
  IF i > Len(items) \/ acc.error THEN acc
  ELSE LET position == items[i]
           neighbor_id == neighbor_ids[position]
           off == OffsetTable(coords[2])[position]
           relative_coords == <<coords[1] + off[1], coords[2] + off[2]>>
       IN IF neighbor_id = PentagonMarker
          THEN PlaceNeighbors_reset(acc, coords, neighbor_ids, items, i + 1)
          ELSE IF DictHas(acc.grid, relative_coords)
                  /\ DictGet(acc.grid, relative_coords) # neighbor_id
          THEN [acc EXCEPT !.error = TRUE,
                           !.grid = <<acc.grid[1]>>,
                           !.log = @ \cup {<<coords, position, relative_coords, neighbor_id>>}]
          ELSE PlaceNeighbors_reset([acc EXCEPT !.grid = DictPut(@, relative_coords, neighbor_id)],
                                    coords, neighbor_ids, items, i + 1)

\* lines 710-736: the loop over the neighbours of the tile at coords; it
\* stops at the first coordinate held by another cell.  acc is
\* [grid, error, log]; log records the edges for which the error is logged
RECURSIVE PlaceNeighbors(_, _, _, _, _)
PlaceNeighbors(acc, coords, neighbor_ids, items, i) ==
  IF i > Len(items) \/ acc.error THEN acc
  ELSE LET position == items[i]
           neighbor_id == neighbor_ids[position]
           off == OffsetTable(coords[2])[position]
           relative_coords == <<coords[1] + off[1], coords[2] + off[2]>>
       IN IF neighbor_id = PentagonMarker
          THEN PlaceNeighbors(acc, coords, neighbor_ids, items, i + 1)
          ELSE IF DictHas(acc.grid, relative_coords)
                  /\ DictGet(acc.grid, relative_coords) # neighbor_id
          THEN [acc EXCEPT !.error = TRUE,
                           !.log = @ \cup {<<coords, position, relative_coords, neighbor_id>>}]
          ELSE PlaceNeighbors([acc EXCEPT !.grid = DictPut(@, relative_coords, neighbor_id)],
                              coords, neighbor_ids, items, i + 1)

\* lines 655-670: the neighbours of the centre, placed with the even table
\* and without looking at what the coordinate holds
RECURSIVE PlaceCenter(_, _, _, _)
PlaceCenter(grid, neighbor_ids, items, i) ==
  IF i > Len(items) THEN grid
  ELSE LET position == items[i]
           neighbor_id == neighbor_ids[position]
           off == relative_coords_for_even_columns[position]
       IN IF neighbor_id = PentagonMarker
          THEN PlaceCenter(grid, neighbor_ids, items, i + 1)
          ELSE PlaceCenter(DictPut(grid, <<0 + off[1], 0 + off[2]>>, neighbor_id),
                           neighbor_ids, items, i + 1)

\* int(math.sqrt(n))
ISqrt(n) == CHOOSE k \in 0..n : k * k <= n /\ (k + 1) * (k + 1) > n

\* the element at position i, whatever follows it
SeqMin_first(s, i) == s[i]

\* min(...) and max(...) of the elements of s from position i on
SeqMin(s, i) == CHOOSE m \in {s[k] : k \in i..Len(s)} : \A k \in i..Len(s) : m <= s[k]
SeqMax(s, i) == CHOOSE m \in {s[k] : k \in i..Len(s)} : \A k \in i..Len(s) : m >= s[k]

\* lines 544-580: the latitude buckets <<min, max>>, in hundredths of the
\* latitude unit so that the buffer lat_range * 0.01 is an integer
LatBuckets(sorted_by_lat, num_rows) ==
  LET total_tiles == Len(sorted_by_lat)
      lats == [i \in 1..total_tiles |-> sorted_by_lat[i][2]]
      min_lat == SeqMin(lats, 1)
      max_lat == SeqMax(lats, 1)
      lat_range == max_lat - min_lat
      tiles_per_bucket == Max(total_tiles \div num_rows, 1)
      start_idx(i) == i * tiles_per_bucket
      end_idx(i) == IF i = num_rows - 1 THEN total_tiles
                    ELSE Min((i + 1) * tiles_per_bucket, total_tiles)
      used == SelectSeq([k \in 1..num_rows |-> k - 1], LAMBDA i : start_idx(i) < end_idx(i))
      bucket(i) ==
        LET bucket_tiles == SubSeq(lats, start_idx(i) + 1, end_idx(i))
            buffer == lat_range
        IN <<100 * SeqMin(bucket_tiles, 1) - (IF i > 0 THEN buffer ELSE 0),
             100 * SeqMax(bucket_tiles, 1) + (IF i < num_rows - 1 THEN buffer ELSE 0)>>
  IN IF lat_range > 0 /\ num_rows > 1
     THEN [k \in 1..Len(used) |-> bucket(used[k])]
     ELSE <<<<100 * min_lat, 100 * max_lat>>>>

\* lines 586-590: index (from 0) of the first bucket that takes the latitude,
\* -1 when none does
BucketOf(lat_buckets, lat) ==
  LET n == Len(lat_buckets)
      takes(i) == (lat_buckets[i + 1][1] <= 100 * lat /\ 100 * lat <= lat_buckets[i + 1][2])
                  \/ (i = 0 /\ 100 * lat < lat_buckets[i + 1][1])
                  \/ (i = n - 1 /\ 100 * lat > lat_buckets[i + 1][2])
      ok == {i \in 0..(n - 1) : takes(i)}
  IN IF ok = {} THEN -1 ELSE CHOOSE i \in ok : \A j \in ok : i <= j

\* lines 583-600: the rows of <<h3_index, lng>>, each sorted west to east
GeoRows(w, cells, lat_buckets) ==
  [r \in 1..Len(lat_buckets) |->
     StableSort(SelectSeq([i \in 1..Len(cells) |-> <<cells[i], h3_to_geo(w, cells[i])[2]>>],
                          LAMBDA e : BucketOf(lat_buckets, h3_to_geo(w, e[1])[1]) = r - 1))]

\* the default position alone, as if the centre were in no row
CenterIndex_default(rows, tile_id) == <<Len(rows) \div 2, 0>>

\* lines 612-626: row and column of the centre, the default when it is missing
CenterIndex(rows, tile_id) ==
  LET hits == UNION {{<<r, c>> : c \in {k \in 1..Len(rows[r]) : rows[r][k][1] = tile_id}} :
                      r \in 1..Len(rows)}
      first == CHOOSE h \in hits : \A g \in hits : h[1] < g[1] \/ (h[1] = g[1] /\ h[2] <= g[2])
  IN IF hits = {} THEN <<Len(rows) \div 2, 0>> ELSE <<first[1] - 1, first[2] - 1>>

\* lines 635-640: every tile of every row gets its coordinates, row by row
\* and west to east; a coordinate already in the grid keeps its place in it
AssignRows(grid, rows, centre) ==
  LET tiles == UNION {{<<r, c>> : c \in 1..Len(rows[r])} : r \in 1..Len(rows)}
      coords(p) == <<(p[1] - 1) - centre[1], (p[2] - 1) - centre[2]>>
      new == {p \in tiles : ~DictHas(grid, coords(p))}
      nth(p) == Cardinality({q \in new : q[1] < p[1] \/ (q[1] = p[1] /\ q[2] <= p[2])})
  IN [k \in 1..(Len(grid) + Cardinality(new)) |->
        IF k <= Len(grid)
        THEN IF \E p \in tiles : coords(p) = grid[k][1]
             THEN LET p == CHOOSE q \in tiles : coords(q) = grid[k][1]
                  IN <<grid[k][1], rows[p[1]][p[2]][1]>>
             ELSE grid[k]
        ELSE LET p == CHOOSE q \in new : nth(q) = k - Len(grid)
             IN <<coords(p), rows[p[1]][p[2]][1]>>]

\* line 525: sorted(tile_coords.items(), key=latitude), as <<h3_index, lat>>
SortByLat(w, cells) ==
  StableSort([i \in 1..Len(cells) |-> <<cells[i], h3_to_geo(w, cells[i])[1]>>])

\* lines 529-532: the number of rows
NumRows(total_tiles, height_) == Min(Max(ISqrt(total_tiles), 1), height_ * 2)

\* lines 642-646: the centre is forced to (0,0) when something else is there
EnsureCenter(grid, tile_id_) ==
  IF ~DictHas(grid, <<0, 0>>) \/ DictGet(grid, <<0, 0>>) # tile_id_
  THEN DictPut(grid, <<0, 0>>, tile_id_)
  ELSE grid

\* lines 746-782: the response without the per-tile data
CoordKey(coords) == ToString(coords[1]) \o "," \o ToString(coords[2])

Response(w, grid, tile_id) ==
  LET rowsOf == [i \in 1..Len(grid) |-> grid[i][1][1]]
      colsOf == [i \in 1..Len(grid) |-> grid[i][1][2]]
      pent == SelectSeq(grid, LAMBDA e : e[2] # NoCell /\ h3_is_pentagon(w, e[2]))
  IN [center_tile_id |-> tile_id,
      grid |-> [k \in {CoordKey(grid[i][1]) : i \in 1..Len(grid)} |->
                  grid[CHOOSE i \in 1..Len(grid) : CoordKey(grid[i][1]) = k][2]],
      pentagon_positions |-> [i \in 1..Len(pent) |-> pent[i][1]],
      bounds |-> [min_row |-> SeqMin(rowsOf, 1), max_row |-> SeqMax(rowsOf, 1),
                  min_col |-> SeqMin(colsOf, 1), max_col |-> SeqMax(colsOf, 1)]]

NoResponse == [center_tile_id |-> NoCell]

\* ------------------------------------------------------------------ state
VARIABLES
  world,          \* the grid index: the answers of h3 (fixed)
  static,         \* data/static: tile id -> stored static data
  pc,             \* position of the request
  tile_id,        \* the cell of the request
  tile,           \* the Tile object the tile request holds
  width,
  height,
  center_nbrs,    \* center_tile.neighbor_ids
  grid_dict,      \* coordinates -> tile id, in insertion order
  done_tiles,
  ring,           \* i of "for i in range(n_rings)"
  items,          \* list(grid_dict.items()) of the current pass
  idx,            \* position in items (from 1)
  errlog,         \* the edges for which "trying to overwrite" was logged
  response,
  parked,         \* the locals of a second request, while the first one runs
  dynamic,        \* data/dynamic: <<mod_name, tile id>> -> stored content and visuals
  requests        \* the number of requests that wrote dynamic data

vars == <<world, static, pc, tile_id, tile, width, height, center_nbrs, grid_dict,
          done_tiles, ring, items, idx, errlog, response, parked, dynamic,
          requests>>

Origin == <<MaxRes, 0, 0>>

ValidWorld(pent, lat0, bstart, tie) ==
  [pent |-> pent, lat0 |-> lat0, bstart |-> bstart, tie |-> tie,
   warp |-> NoCell, warpTo |-> <<0, 0>>]

\* latitude of the origin cell: far north, on the equator, far south
Latitudes == {9001, 101, -9001}

\* the worlds of the grid requests: a northern, an equatorial and a southern
\* one without pentagon, and one with a pentagon at the origin
Worlds ==
  {ValidWorld(FALSE, 9001, 0, 0), ValidWorld(FALSE, 101, 0, 0), ValidWorld(FALSE, -9001, 3, 1),
   ValidWorld(TRUE, 9001, 0, 0)}

\* centres: the origin; in a pentagon world the cells south of the pentagon
\* and those along the glued edge, up to MaxPentDist steps away
Centres(w) ==
  IF w.pent
  THEN {Origin} \cup {<<MaxRes, -d, 0>> : d \in 1..MaxPentDist}
               \cup {<<MaxRes, 0, d>> : d \in 1..MaxPentDist}
  ELSE {Origin}

EmptyStore == [k \in {} |-> NoCell]
EmptyDynamic == [k \in {} |-> NoCell]
NoTile == [id |-> NoCell]

\* the locals of a request that has not started
NoRequest ==
  [pc |-> "idle", tile_id |-> NoCell, width |-> 0, height |-> 0,
   center_nbrs |-> [p \in {} |-> NoCell], grid_dict |-> <<>>, done_tiles |-> {}, ring |-> 0,
   items |-> <<>>, idx |-> 0, errlog |-> {}, response |-> NoResponse]

Init ==
  /\ world \in Worlds
  /\ static = EmptyStore
  /\ pc = "idle"
  /\ tile_id = NoCell
  /\ tile = NoTile
  /\ width = 0
  /\ height = 0
  /\ center_nbrs = [p \in {} |-> NoCell]
  /\ grid_dict = <<>>
  /\ done_tiles = {}
  /\ ring = 0
  /\ items = <<>>
  /\ idx = 0
  /\ errlog = {}
  /\ response = NoResponse
  /\ parked = NoRequest
  /\ dynamic = EmptyDynamic
  /\ requests = 0

\* lines 411-505: the centre is placed, its tile loaded or created, and the
\* algorithm chosen
GridStart(id, w_, h_, order) ==
  /\ pc = "idle"
  /\ \E lc \in {LoadOrCreate(world, static, id, order)} :
     \E fix \in {DOMAIN lc.tile.neighbor_ids = {} /\ k_ring(world, id, 1) \ {id} # {}} :
     \E center_tile \in {IF fix
                          THEN [lc.tile EXCEPT
                                  !.neighbor_ids = _get_positioned_neighbors(world, id, order)]
                          ELSE lc.tile} :
        /\ static' = IF fix THEN save_static(lc.store, center_tile) ELSE lc.store
        /\ center_nbrs' = center_tile.neighbor_ids
  /\ tile_id' = id
  /\ width' = w_
  /\ height' = h_
  /\ grid_dict' = <<<<<<0, 0>>, id>>>>
  /\ pc' = IF UseGeographic(world, id, w_, h_) THEN "geographic" ELSE "primary"
  /\ UNCHANGED <<requests, dynamic, parked, world, tile, done_tiles, ring, items, idx, errlog, response>>

\* lines 507-646: the geographic coordinate-based algorithm
Geographic(order) ==
  /\ pc = "geographic"
  /\ \E cells \in {SetOrder(k_ring(world, tile_id, KRingSize(width, height)), order)} :
     \E sorted_by_lat \in {SortByLat(world, cells)} :
     \E lat_buckets \in {LatBuckets(sorted_by_lat, NumRows(Len(sorted_by_lat), height))} :
     \E rows \in {GeoRows(world, cells, lat_buckets)} :
        grid_dict' = EnsureCenter(AssignRows(grid_dict, rows, CenterIndex(rows, tile_id)),
                                  tile_id)
  /\ pc' = "finish"
  /\ UNCHANGED <<requests, dynamic, parked, world, static, tile, tile_id, width, height, center_nbrs, done_tiles, ring,
                 items, idx, errlog, response>>

\* lines 650-677
PlaceCenterNeighbors ==
  /\ pc = "primary"
  /\ grid_dict' = PlaceCenter(grid_dict, center_nbrs, NeighborItems(center_nbrs), 1)
  /\ done_tiles' = {<<0, 0>>}
  /\ ring' = 0
  /\ pc' = "rings"
  /\ UNCHANGED <<requests, dynamic, parked, world, static, tile, tile_id, width, height, center_nbrs, items, idx, errlog,
                 response>>

\* too few passes for the requested size
n_rings_short == Max(width, height) \div 4

\* one pass more than the code makes
n_rings_more == Max(width, height) + 2

n_rings == Max(width, height) + 1

\* lines 680-683: a pass starts over the tiles placed so far
BeginRing ==
  /\ pc = "rings"
  /\ ring < n_rings
  /\ items' = grid_dict
  /\ idx' = 1
  /\ pc' = "tiles"
  /\ UNCHANGED <<requests, dynamic, parked, world, static, tile, tile_id, width, height, center_nbrs, grid_dict, done_tiles,
                 ring, errlog, response>>

\* lines 686-689
SkipDone ==
  /\ pc = "tiles"
  /\ idx <= Len(items)
  /\ items[idx][1] \in done_tiles
  /\ idx' = idx + 1
  /\ UNCHANGED <<requests, dynamic, parked, world, static, tile, pc, tile_id, width, height, center_nbrs, grid_dict,
                 done_tiles, ring, items, errlog, response>>

\* lines 691-744: the tile at the next coordinate is loaded or created and
\* its neighbours placed; an occupied coordinate ends the pass
ProcessTile(order) ==
  /\ pc = "tiles"
  /\ idx <= Len(items)
  /\ items[idx][1] \notin done_tiles
  /\ \E lc \in {LoadOrCreate(world, static, items[idx][2], order)} :
       \E r \in {PlaceNeighbors([grid |-> grid_dict, error |-> FALSE, log |-> errlog],
                                items[idx][1], lc.tile.neighbor_ids,
                                NeighborItems(lc.tile.neighbor_ids), 1)} :
          /\ static' = lc.store
          /\ grid_dict' = r.grid
          /\ errlog' = r.log
          /\ IF r.error
             THEN /\ pc' = "rings"
                  /\ ring' = ring + 1
                  /\ UNCHANGED <<done_tiles, idx>>
             ELSE /\ done_tiles' = done_tiles \cup {items[idx][1]}
                  /\ idx' = idx + 1
                  /\ UNCHANGED <<pc, ring>>
  /\ UNCHANGED <<requests, dynamic, parked, world, tile, tile_id, width, height, center_nbrs, items, response>>

\* the pass is over
EndRing ==
  /\ pc = "tiles"
  /\ idx > Len(items)
  /\ ring' = ring + 1
  /\ pc' = "rings"
  /\ UNCHANGED <<requests, dynamic, parked, world, static, tile, tile_id, width, height, center_nbrs, grid_dict, done_tiles,
                 items, idx, errlog, response>>

RingsDone ==
  /\ pc = "rings"
  /\ ring >= n_rings
  /\ pc' = "finish"
  /\ UNCHANGED <<requests, dynamic, parked, world, static, tile, tile_id, width, height, center_nbrs, grid_dict, done_tiles,
                 ring, items, idx, errlog, response>>

\* lines 746-807
Finish ==
  /\ pc = "finish"
  /\ response' = Response(world, grid_dict, tile_id)
  /\ pc' = "done"
  /\ UNCHANGED <<requests, dynamic, parked, world, static, tile, tile_id, width, height, center_nbrs, grid_dict, done_tiles,
                 ring, items, idx, errlog>>

Next ==
  \/ \E id \in Centres(world), w_ \in 1..MaxDim, h_ \in 1..MaxDim, order \in 0..(NumOrders - 1) :
       GridStart(id, w_, h_, order)
  \/ \E order \in 0..(NumOrders - 1) : Geographic(order)
  \/ PlaceCenterNeighbors
  \/ BeginRing
  \/ SkipDone
  \/ \E order \in 0..(NumOrders - 1) : ProcessTile(order)
  \/ EndRing
  \/ RingsDone
  \/ Finish

Spec == Init /\ [][Next]_vars

\* ------------------------------------------------- a request as a function
\* lines 691-744 for the tile at items_[i], once it is loaded or created (lc)
\* and its neighbours are placed (r); st is [grid, done, store, log, error]
ExpandedTile(st, coords, lc, r) ==
  [grid |-> r.grid,
   done |-> IF r.error THEN st.done ELSE st.done \cup {coords},
   store |-> lc.store,
   log |-> r.log,
   error |-> r.error]

ExpandTile(st, coords, lc) ==
  ExpandedTile(st, coords, lc,
               PlaceNeighbors([grid |-> st.grid, error |-> FALSE, log |-> st.log], coords,
                              lc.tile.neighbor_ids, NeighborItems(lc.tile.neighbor_ids), 1))

\* lines 682-744: one pass over items_, the tiles placed when it starts; it
\* ends at the first conflict
RECURSIVE PropagationPass(_, _, _, _, _)
PropagationPass(w, st, items_, i, order) ==
  IF i > Len(items_) \/ st.error THEN st
  ELSE IF items_[i][1] \in st.done THEN PropagationPass(w, st, items_, i + 1, order)
  ELSE PropagationPass(w, ExpandTile(st, items_[i][1],
                                     LoadOrCreate(w, st.store, items_[i][2], order)),
                       items_, i + 1, order)

\* lines 680-744: the passes i, ..., n - 1
RECURSIVE PropagationPasses(_, _, _, _, _)
PropagationPasses(w, st, i, n, order) ==
  IF i >= n THEN st
  ELSE PropagationPasses(w, PropagationPass(w, [st EXCEPT !.error = FALSE], st.grid, 1, order),
                         i + 1, n, order)

\* lines 650-744: the grid of the primary strategy and the static store
\* after it, for the centre tile center_tile
PrimaryGrid(w, store, center_tile, w_, h_, order) ==
  PropagationPasses(w,
    [grid |-> PlaceCenter(<<<<<<0, 0>>, center_tile.id>>>>, center_tile.neighbor_ids,
                          NeighborItems(center_tile.neighbor_ids), 1),
     done |-> {<<0, 0>>}, store |-> store, log |-> {}, error |-> FALSE],
    0, Max(w_, h_) + 1, order)

\* lines 583-646: the grid of the geographic strategy from the k-ring cells
GeographicRowsGrid(rows, id) ==
  EnsureCenter(AssignRows(<<<<<<0, 0>>, id>>>>, rows, CenterIndex(rows, id)), id)

GeographicCellsGrid(w, id, h_, cells) ==
  GeographicRowsGrid(GeoRows(w, cells, LatBuckets(SortByLat(w, cells), NumRows(Len(cells), h_))),
                     id)

\* lines 507-646
GeographicGrid(w, id, w_, h_, order) ==
  GeographicCellsGrid(w, id, h_, SetOrder(k_ring(w, id, KRingSize(w_, h_)), order))

\* lines 459-489: the centre tile, loaded or created, with the repair of an
\* empty neighbor_ids; lc is the result of the load-or-create
CenterTile(w, id, lc, order) ==
  IF DOMAIN lc.tile.neighbor_ids = {} /\ k_ring(w, id, 1) \ {id} # {}
  THEN [tile |-> [lc.tile EXCEPT !.neighbor_ids = _get_positioned_neighbors(w, id, order)],
        store |-> save_static(lc.store,
                              [lc.tile EXCEPT !.neighbor_ids = _get_positioned_neighbors(w, id, order)])]
  ELSE lc

\* get_tile_grid run from the static store `store` with nothing else
\* running: the grid and the static store when it returns
EmbedFrom(w, ct, id, w_, h_, order) ==
  IF UseGeographic(w, id, w_, h_)
  THEN [grid |-> GeographicGrid(w, id, w_, h_, order), store |-> ct.store]
  ELSE PrimaryGrid(w, ct.store, ct.tile, w_, h_, order)

get_tile_grid(w, store, id, w_, h_, order) ==
  Response(w, EmbedFrom(w, CenterTile(w, id, LoadOrCreate(w, store, id, order), order),
                        id, w_, h_, order).grid, id)

\* ------------------------------------------------------------- wider grids
WideDim == 5       \* the default width and height of the endpoint

\* centres of the wider requests: the origin; in the pentagon world a cell
\* near the pentagon and one just outside the radius of the pentagon test
WideCentres(w) ==
  IF w.pent THEN {<<MaxRes, -1, 0>>, <<MaxRes, -(WideDim \div 2 + 2), 0>>} ELSE {Origin}

NextWide ==
  \/ \E id \in WideCentres(world), w_ \in (WideDim - 1)..WideDim,
        h_ \in (WideDim - 1)..WideDim, order \in 0..(NumOrders - 1) :
       GridStart(id, w_, h_, order)
  \/ \E order \in 0..(NumOrders - 1) : Geographic(order)
  \/ PlaceCenterNeighbors
  \/ BeginRing
  \/ SkipDone
  \/ \E order \in 0..(NumOrders - 1) : ProcessTile(order)
  \/ EndRing
  \/ RingsDone
  \/ Finish

SpecWide == Init /\ [][NextWide]_vars

\* ------------------------------------------------------ requests in sequence
SeqDim == 2

\* the centres of the requests: two adjacent cells; next to a pentagon, a
\* cell at distance 1 and one at distance 2 of it
SeqCentres(w) ==
  IF w.pent THEN {<<MaxRes, 0, 1>>, <<MaxRes, 0, 2>>} ELSE {Origin, <<MaxRes, 0, -1>>}

\* api/tiles.py 49-66: every cell of the set without static file is created
\* and saved
CreateMissing(w, store, cells, order) ==
  [k \in DOMAIN store \cup cells |->
     IF k \in DOMAIN store THEN store[k] ELSE Tile__init__(w, k, order)]

\* api/tiles.py 22-85, get_tile: a tile without static file is created and
\* saved, and so are the cells within distance 5 of it
GetTile(id, order) ==
  /\ pc = "idle"
  /\ \E lc \in {LoadOrCreate(world, static, id, order)} :
       /\ tile' = lc.tile
       /\ static' = IF Tile_load(static, id).found THEN static
                    ELSE CreateMissing(world, lc.store, k_ring(world, id, 5), order)
  /\ UNCHANGED <<requests, dynamic, parked, world, pc, tile_id, width, height, center_nbrs, grid_dict, done_tiles, ring,
                 items, idx, errlog, response>>

\* update_tile, get_parent, get_children, update_visual_properties,
\* get_resolutions, generate_map (and, for each of its two tiles,
\* move_content): the tile is loaded, or created and saved; content and
\* visual properties go to the dynamic file
UpdateTile(id, order) ==
  /\ pc = "idle"
  /\ \E lc \in {LoadOrCreate(world, static, id, order)} :
       /\ tile' = lc.tile
       /\ static' = lc.store
  /\ UNCHANGED <<requests, dynamic, parked, world, pc, tile_id, width, height, center_nbrs, grid_dict, done_tiles, ring,
                 items, idx, errlog, response>>

\* the response is sent and the locals of the handler are gone; the static
\* files stay
NextRequest ==
  /\ pc = "done"
  /\ pc' = "idle"
  /\ tile_id' = NoCell
  /\ width' = 0
  /\ height' = 0
  /\ center_nbrs' = [p \in {} |-> NoCell]
  /\ grid_dict' = <<>>
  /\ done_tiles' = {}
  /\ ring' = 0
  /\ items' = <<>>
  /\ idx' = 0
  /\ errlog' = {}
  /\ response' = NoResponse
  /\ UNCHANGED <<requests, dynamic, parked, world, static, tile>>

NextSeq ==
  \/ \E id \in SeqCentres(world), w_ \in 1..SeqDim, h_ \in 1..SeqDim,
        order \in 0..(NumOrders - 1) :
       GridStart(id, w_, h_, order)
  \/ \E order \in 0..(NumOrders - 1) : Geographic(order)
  \/ PlaceCenterNeighbors
  \/ BeginRing
  \/ SkipDone
  \/ \E order \in 0..(NumOrders - 1) : ProcessTile(order)
  \/ EndRing
  \/ RingsDone
  \/ Finish
  \/ NextRequest
  \/ \E id \in SeqCentres(world), order \in 0..(NumOrders - 1) : GetTile(id, order)
  \/ \E id \in SeqCentres(world), order \in 0..(NumOrders - 1) : UpdateTile(id, order)

SpecSeq == Init /\ [][NextSeq]_vars

\* ------------------------------------------------------ concurrent requests
ConcDim == 1

\* the locals of the running request
Locals ==
  [pc |-> pc, tile_id |-> tile_id, width |-> width, height |-> height,
   center_nbrs |-> center_nbrs, grid_dict |-> grid_dict, done_tiles |-> done_tiles,
   ring |-> ring, items |-> items, idx |-> idx, errlog |-> errlog, response |-> response]

\* the other request gets the processor: the two requests share nothing but
\* the static files
Switch ==
  /\ parked.pc # "done" \/ pc # "done"
  /\ parked' = Locals
  /\ pc' = parked.pc
  /\ tile_id' = parked.tile_id
  /\ width' = parked.width
  /\ height' = parked.height
  /\ center_nbrs' = parked.center_nbrs
  /\ grid_dict' = parked.grid_dict
  /\ done_tiles' = parked.done_tiles
  /\ ring' = parked.ring
  /\ items' = parked.items
  /\ idx' = parked.idx
  /\ errlog' = parked.errlog
  /\ response' = parked.response
  /\ UNCHANGED <<requests, dynamic, world, static, tile>>

\* the static file of the tile the running request is about to load is
\* being written by the other request (tile.py 443-444, open(.., 'w')): the
\* read fails and Tile.load returns None (tile.py 562-565, 617-620)
TornStatic ==
  /\ pc = "tiles"
  /\ idx <= Len(items)
  /\ items[idx][1] \notin done_tiles
  /\ items[idx][2] \in DOMAIN static
  /\ parked.pc \notin {"idle", "done"}
  /\ static' = [k \in DOMAIN static \ {items[idx][2]} |-> static[k]]
  /\ UNCHANGED <<requests, dynamic, parked, world, pc, tile_id, tile, width, height, center_nbrs, grid_dict,
                 done_tiles, ring, items, idx, errlog, response>>

NextConc ==
  \/ \E id \in SeqCentres(world) \ {parked.tile_id}, w_ \in 1..ConcDim, h_ \in 1..ConcDim,
        order \in 0..(NumOrders - 1) :
       GridStart(id, w_, h_, order)
  \/ \E order \in 0..(NumOrders - 1) : Geographic(order)
  \/ PlaceCenterNeighbors
  \/ BeginRing
  \/ SkipDone
  \/ \E order \in 0..(NumOrders - 1) : ProcessTile(order)
  \/ EndRing
  \/ RingsDone
  \/ Finish
  \/ Switch
  \/ TornStatic

SpecConc == Init /\ [][NextConc]_vars

\* ------------------------------------------------------ invalid identifiers
\* h3.h3_is_valid: the identifier names a cell of the grid
h3_is_valid(w, id) ==
  /\ id[1] \in 0..MaxRes
  /\ ~(w.pent /\ id[1] = MaxRes /\ InCut(Pos(id)))

\* identifiers that name no cell: a resolution that does not exist
InvalidIds == {<<MaxRes + 1, 0, 0>>, <<MaxRes + 1, 1, 0>>}

Operations ==
  {"get_tile", "update_tile", "get_neighbors", "get_parent", "get_children", "move_content",
   "update_visual_properties", "get_tile_grid", "get_resolutions", "generate_map"}

\* raise HTTPException(status_code=400, detail="Invalid H3 index")
InvalidIndexError == [status_code |-> 400, detail |-> <<"Invalid H3 index">>]

\* the handlers with "except HTTPException: raise" before "except Exception"
ReraisesHTTPException(op) == op \in {"move_content", "update_visual_properties"}

\* the except clauses of a handler, for the HTTPException e raised in its
\* try block: HTTPException is an Exception, so without the first clause
\* "except Exception as e" takes it and raises
\* HTTPException(status_code=500, detail=str(e))
ErrorResponse(op, e) ==
  IF ReraisesHTTPException(op) THEN [operation |-> op, status_code |-> e.status_code,
                                      detail |-> e.detail]
  ELSE [operation |-> op, status_code |-> 500,
        detail |-> IF op = "generate_map" THEN <<"Error generating map: ", "str(e)">>
                   ELSE <<"str(e)">>]

\* a request of any handler with an identifier (for move_content: a source
\* or a target) that is not valid: the validity test is the first statement
\* of the try block
InvalidRequest(op, id, target) ==
  /\ pc = "idle"
  /\ ~h3_is_valid(world, id) \/ (op = "move_content" /\ ~h3_is_valid(world, target))
  /\ response' = ErrorResponse(op, InvalidIndexError)
  /\ UNCHANGED <<requests, dynamic, parked, world, static, pc, tile_id, tile, width, height, center_nbrs,
                 grid_dict, done_tiles, ring, items, idx, errlog>>

NextApi ==
  \/ \E op \in Operations, id \in InvalidIds \cup SeqCentres(world),
        target \in InvalidIds \cup SeqCentres(world) :
       InvalidRequest(op, id, target)
  \/ \E id \in SeqCentres(world), order \in 0..(NumOrders - 1) : UpdateTile(id, order)

SpecApi == Init /\ [][NextApi]_vars

\* --------------------------------------------------------- tile construction
\* cells a tile is built for: the cells around the origin, two cells farther
\* off and, without pentagon, cells of the coarser resolutions
TileRadius == 2

FarCells == {<<MaxRes, 4, 6>>, <<MaxRes, -10, -1>>}

CoarseCells ==
  UNION {{MkCell(r, <<0, 0>>)} \cup {MkCell(r, VMul(StepOf(r), Dir(j))) : j \in 0..5} :
         r \in 1..(MaxRes - 1)}

TileCells(w) ==
  k_ring(w, Origin, TileRadius) \cup (IF w.pent THEN {} ELSE FarCells \cup CoarseCells)

TileWorlds ==
  {ValidWorld(FALSE, l, b, t) : l \in Latitudes, b \in {0, 3}, t \in {0, 1}}
  \cup {ValidWorld(TRUE, 9001, b, 0) : b \in {0, 3}}

\* a geometry h3 does not produce: the centroid reported for one neighbour of
\* the origin lies on the ray from the origin through another neighbour
TieWorlds ==
  {[ValidWorld(FALSE, 9001, 0, 0) EXCEPT !.warp = <<MaxRes, 1, 0>>, !.warpTo = <<0, 6>>]}

InitTileIn(ws) ==
  /\ world \in ws
  /\ tile_id \in TileCells(world)
  /\ static = EmptyStore
  /\ pc = "new"
  /\ tile = NoTile
  /\ width = 0
  /\ height = 0
  /\ center_nbrs = [p \in {} |-> NoCell]
  /\ grid_dict = <<>>
  /\ done_tiles = {}
  /\ ring = 0
  /\ items = <<>>
  /\ idx = 0
  /\ errlog = {}
  /\ response = NoResponse
  /\ parked = NoRequest
  /\ dynamic = EmptyDynamic
  /\ requests = 0

InitTile == InitTileIn(TileWorlds)
InitTie == InitTileIn(TileWorlds \cup TieWorlds)

\* api/tiles.py 38-47: PentagonTile(tile_id) or HexagonTile(tile_id)
NewTile(order) ==
  /\ pc = "new"
  /\ tile' = Tile__init__(world, tile_id, order)
  /\ pc' = "built"
  /\ UNCHANGED <<requests, dynamic, parked, world, static, tile_id, width, height, center_nbrs, grid_dict, done_tiles,
                 ring, items, idx, errlog, response>>

\* tile.save_static()
SaveStatic ==
  /\ pc = "built"
  /\ static' = save_static(static, tile)
  /\ pc' = "saved"
  /\ UNCHANGED <<requests, dynamic, parked, world, tile, tile_id, width, height, center_nbrs, grid_dict, done_tiles,
                 ring, items, idx, errlog, response>>

\* Tile.load(tile_id) of a later request
LoadTile ==
  /\ pc = "saved"
  /\ tile' = Tile_load(static, tile_id).tile
  /\ pc' = "loaded"
  /\ UNCHANGED <<requests, dynamic, parked, world, static, tile_id, width, height, center_nbrs, grid_dict, done_tiles,
                 ring, items, idx, errlog, response>>

NextTile ==
  \/ \E order \in 0..(NumOrders - 1) : NewTile(order)
  \/ SaveStatic
  \/ LoadTile

SpecTile == InitTile /\ [][NextTile]_vars
SpecTie == InitTie /\ [][NextTile]_vars

\* ------------------------------------------------------------------ claims
\* C1: from the moment the centre is placed, through every propagation pass
\* and in the response, coordinate (0,0) holds the centre cell, in the primary
\* and in the geographic strategy.
C1_CenterAtOrigin ==
  /\ pc \in {"primary", "geographic", "rings", "tiles", "finish", "done"}
       => DictHas(grid_dict, <<0, 0>>) /\ DictGet(grid_dict, <<0, 0>>) = tile_id
  /\ pc = "done"
       => /\ "0,0" \in DOMAIN response.grid
          /\ response.grid["0,0"] = tile_id
          /\ response.center_tile_id = tile_id

\* a grid request answered by the primary strategy after all its passes, one
\* of which met an occupied coordinate
C1_Witness ==
  /\ pc = "done"
  /\ ring = n_rings
  /\ errlog # {}
  /\ response.grid["0,0"] = tile_id

\* the tile of the request has been constructed (and possibly stored, reloaded)
TileBuilt == pc \in {"built", "saved", "loaded"}

\* C2: for a cell that is no pentagon the mapping has exactly the six clock
\* positions as keys, each mapped to a cell of the 1-ring other than the cell
\* itself, never to the marker, and no cell under two positions.
C2_SixDistinctNeighbors ==
  (TileBuilt /\ ~h3_is_pentagon(world, tile_id))
    => /\ DOMAIN tile.neighbor_ids = Positions
       /\ \A p \in Positions :
            /\ tile.neighbor_ids[p] # PentagonMarker
            /\ tile.neighbor_ids[p] # tile_id
            /\ tile.neighbor_ids[p] \in k_ring(world, tile_id, 1)
       /\ \A p, q \in Positions : p # q => tile.neighbor_ids[p] # tile.neighbor_ids[q]

\* a hexagon next to the pentagon has been given its six neighbours
C2_Witness ==
  /\ pc = "built"
  /\ world.pent
  /\ ~h3_is_pentagon(world, tile_id)
  /\ Origin \in {tile.neighbor_ids[p] : p \in DOMAIN tile.neighbor_ids}
  /\ Cardinality({tile.neighbor_ids[p] : p \in DOMAIN tile.neighbor_ids}) = 6

\* C3: for a pentagon the mapping has six entries, exactly five of them
\* cells (its five neighbours) and exactly one the marker.
C3_PentagonFivePlusMarker ==
  (TileBuilt /\ h3_is_pentagon(world, tile_id))
    => /\ DOMAIN tile.neighbor_ids = Positions
       /\ Cardinality({p \in Positions : tile.neighbor_ids[p] = PentagonMarker}) = 1
       /\ {tile.neighbor_ids[p] : p \in Positions} \ {PentagonMarker}
            = k_ring(world, tile_id, 1) \ {tile_id}
       /\ Cardinality(k_ring(world, tile_id, 1) \ {tile_id}) = 5

\* the tile of the pentagon has been constructed, one position holds the marker
C3_Witness ==
  /\ pc = "built"
  /\ h3_is_pentagon(world, tile_id)
  /\ \E p \in DOMAIN tile.neighbor_ids : tile.neighbor_ids[p] = PentagonMarker

\* the relative bearings of the neighbours of a cell are pairwise distinct
DistinctBearings(w, id) ==
  LET nb == NeighborBearings(w, id, NeighborsOf(w, id, 0), RefBearing(w, id))
  IN \A i, j \in 1..Len(nb) : i # j => nb[i][2] # nb[j][2]

C5_InverseConsistency ==
  (pc = "built" /\ ~world.pent)
    => \A p \in DOMAIN tile.neighbor_ids :
         \A o \in 0..(NumOrders - 1) :
           LET back == _get_positioned_neighbors(world, tile.neighbor_ids[p], o)
           IN /\ inverse_positions[p] \in DOMAIN back
              /\ back[inverse_positions[p]] = tile_id

\* C7: the ladder maps the resolution of the cell to the cell itself, when
\* the tile is constructed and when it is read back from its static file.
C7_LadderOwnResolution ==
  TileBuilt
    => /\ h3_get_resolution(tile_id) \in DOMAIN tile.resolution_ids
       /\ tile.resolution_ids[h3_get_resolution(tile_id)] = tile_id

\* the tile of a cell of a coarser resolution was stored and read back
C7_Witness ==
  /\ pc = "loaded"
  /\ h3_get_resolution(tile_id) < MaxRes
  /\ tile.resolution_ids[h3_get_resolution(tile_id)] = tile_id

\* the chart point of <<lat, lng>> lies in the cell: it is no farther from
\* the centre of the cell than from the centre of any of its six neighbours
InCell(w, cell, lat, lng) ==
  LET q == ChartVec(lat - w.lat0, lng)
      d(c) == VNorm(VSub(q, VScale(3, Pos(c))))
  IN \A j \in 0..5 :
       d(cell) <= d(MkCell(cell[1], VAdd(Pos(cell), VMul(StepOf(cell[1]), Dir(j)))))

Reached(coords, p) ==
  LET off == IF coords[2] % 2 = 0 THEN relative_coords_for_even_columns[p]
             ELSE relative_coords_for_odd_columns[p]
  IN <<coords[1] + off[1], coords[2] + off[2]>>

\* C6 (as amended): for every coordinate the primary strategy has finished
\* (the centre and every coordinate marked done) with cell A there, each of
\* the six positions of A that names a neighbour B has B at the coordinate
\* reached through that position; so it is in the response.
C6_DoneTilesHaveNeighbors ==
  \A coords \in done_tiles :
    LET A == DictGet(grid_dict, coords)
        nb == IF coords = <<0, 0>> THEN center_nbrs ELSE static[A].neighbor_ids
    IN \A p \in DOMAIN nb :
         nb[p] # PentagonMarker
           => /\ DictHas(grid_dict, Reached(coords, p))
              /\ DictGet(grid_dict, Reached(coords, p)) = nb[p]
              /\ pc = "done" => response.grid[CoordKey(Reached(coords, p))] = nb[p]

\* the response of the primary strategy with a finished coordinate in an odd
\* column
C6_Witness ==
  /\ pc = "done"
  /\ \E coords \in done_tiles : coords[2] % 2 = 1
  /\ \E coords \in DictKeys(grid_dict) : coords \notin done_tiles

\* C6 (as stated): for every cell A the primary strategy has placed, at
\* whatever coordinate, each position of A that names a neighbour B has B at
\* the coordinate reached through it, unless the conflict was logged for
\* that edge.
C6_EveryPlacedCellHasNeighbors ==
  (pc = "done" /\ done_tiles # {})
    => \A i \in 1..Len(grid_dict) :
         LET coords == grid_dict[i][1]
             nb == _get_positioned_neighbors(world, grid_dict[i][2], 0)
         IN \A p \in DOMAIN nb :
              nb[p] # PentagonMarker
                => \/ <<coords, p, Reached(coords, p), nb[p]>> \in errlog
                   \/ /\ DictHas(grid_dict, Reached(coords, p))
                      /\ DictGet(grid_dict, Reached(coords, p)) = nb[p]

\* a request for a 3 x 3 grid around a cell with no pentagon in the grid
ThreeByThree == pc = "done" /\ width = 3 /\ height = 3 /\ ~world.pent

C10_FallbackNearPentagon ==
  (world.pent /\ pc \notin {"idle", "new", "built", "saved", "loaded"}
     /\ Origin \in k_ring(world, tile_id, 2))
    => /\ pc # "primary"
       /\ done_tiles = {}
       /\ DictGet(grid_dict, <<0, 0>>) = tile_id

\* the request was answered by the primary strategy
PrimaryDone == pc = "done" /\ ~UseGeographic(world, tile_id, width, height)

\* C11: whenever the primary strategy was used, the pentagon-position list of
\* the response is empty and no populated coordinate holds a pentagon.
C11_PrimaryNoPentagon ==
  PrimaryDone
    => /\ response.pentagon_positions = <<>>
       /\ \A i \in 1..Len(grid_dict) : ~h3_is_pentagon(world, grid_dict[i][2])

\* a step of the primary strategy leaves every entry of the grid in place,
\* with the same cell
EntriesKept ==
  pc \in {"primary", "rings", "tiles", "finish"} =>
  \A i \in 1..Len(grid_dict) :
    DictHas(grid_dict', grid_dict[i][1]) /\ DictGet(grid_dict', grid_dict[i][1]) = grid_dict[i][2]

\* C12: in the primary strategy no step changes the cell a coordinate holds:
\* a neighbour computed for a coordinate that holds another cell is refused.
C12_NeverOverwritten ==
  [][EntriesKept]_vars

\* the neighbour computed for an occupied coordinate was refused: the
\* response still has the cell placed there first
C12_Witness ==
  /\ PrimaryDone
  /\ \E e \in errlog :
       /\ DictHas(grid_dict, e[3])
       /\ DictGet(grid_dict, e[3]) # e[4]
       /\ response.grid[CoordKey(e[3])] = DictGet(grid_dict, e[3])

\* the coordinates whose expansion met a conflict
ConflictSources == {e[1] : e \in errlog}

\* C13: a conflict met while expanding X stops the propagation from X only:
\* when embed returns, every other coordinate placed before the pass of the
\* conflict has been expanded and marked done.  Stated for the coordinates
\* placed before the first pass, the centre and its six neighbours.
C13_ConflictStopsOnlyX ==
  (PrimaryDone /\ errlog # {})
    => \A j \in 1..7 :
         grid_dict[j][1] \in done_tiles \/ grid_dict[j][1] \in ConflictSources

\* the response holds exactly the entries of the grid, and its bounds are the
\* least and greatest row and column among them
ResponseHoldsGrid ==
  LET keys == DictKeys(grid_dict)
      b == response.bounds
  IN /\ DOMAIN response.grid = {CoordKey(k) : k \in keys}
     /\ \A k \in keys : response.grid[CoordKey(k)] = DictGet(grid_dict, k)
     /\ \A k \in keys : b.min_row <= k[1] /\ k[1] <= b.max_row
                        /\ b.min_col <= k[2] /\ k[2] <= b.max_col
     /\ \E k \in keys : k[1] = b.min_row
     /\ \E k \in keys : k[1] = b.max_row
     /\ \E k \in keys : k[2] = b.min_col
     /\ \E k \in keys : k[2] = b.max_col

\* a step taken when a conflict has been or is being logged keeps every
\* coordinate of the grid
ConflictKeepsCoordinates ==
  errlog' # {} => \A i \in 1..Len(grid_dict) : DictHas(grid_dict', grid_dict[i][1])

\* C14: after a conflict the request goes on to its response; no coordinate
\* placed before the conflict is dropped, and the response holds all of them,
\* with the bounds computed over them.
C14_ConflictKeepsResult ==
  /\ [](pc = "done" /\ errlog # {} => ResponseHoldsGrid)
  /\ [][ConflictKeepsCoordinates]_vars

\* a response given after a conflict, with coordinates beyond the centre and
\* its neighbours, among them the source and the target of the refused edge
C14_Witness ==
  /\ pc = "done"
  /\ Len(grid_dict) > 7
  /\ \E e \in errlog : {CoordKey(e[1]), CoordKey(e[3])} \subseteq DOMAIN response.grid

\* C15: whatever requests ran before and whatever static files they left,
\* the response of a grid request is the one the same request gives when it
\* runs first, from an empty static store.
C15_NoCrossRequestState ==
  pc = "done" => response = get_tile_grid(world, EmptyStore, tile_id, width, height, 0)

\* a response given by a request that found the static file of its centre and
\* of the other cells it expanded, left by earlier requests
C15_Witness ==
  /\ pc = "done"
  /\ done_tiles # {}
  /\ tile # NoTile
  /\ \E id \in DOMAIN static : \A i \in 1..Len(grid_dict) : grid_dict[i][2] # id

\* C16: each of two grid requests for different centres that run interleaved
\* on the same static files returns the response it gives when it runs alone.
C16_ConcurrentAsAlone ==
  /\ pc = "done"
       => response = get_tile_grid(world, EmptyStore, tile_id, width, height, 0)
  /\ parked.pc = "done"
       => parked.response = get_tile_grid(world, EmptyStore, parked.tile_id, parked.width,
                                          parked.height, 0)

\* one request has returned while the other is in the middle of a pass; the
\* static files of cells of both grids are there
C16_Witness ==
  /\ pc = "done"
  /\ parked.pc = "tiles"
  /\ parked.idx > 1
  /\ parked.tile_id # tile_id
  /\ \E i \in 1..Len(grid_dict), j \in 1..Len(parked.grid_dict) :
       /\ grid_dict[i][2] = parked.grid_dict[j][2]
       /\ grid_dict[i][2] \in DOMAIN static

\* the step answers a request without touching a tile
NoTileTouched == response' # response => static' = static /\ tile' = tile

\* C17: every request with an identifier that is not valid is answered with
\* status 400 and the detail 'Invalid H3 index', and no tile is loaded,
\* created or saved for it.
C17_InvalidIdClientError ==
  /\ [](response # NoResponse
          => response.status_code = 400 /\ response.detail = <<"Invalid H3 index">>)
  /\ [][NoTileTouched]_vars

\* the coordinates of the requested window around (0,0)
Window == {<<r, c>> : r \in (-(height \div 2))..(height \div 2),
                      c \in (-(width \div 2))..(width \div 2)}

\* C18: a response of the primary strategy given without any conflict holds
\* a cell at every coordinate of the requested window.
C18_WindowPopulated ==
  (PrimaryDone /\ errlog = {})
    => \A k \in Window : DictHas(grid_dict, k) /\ CoordKey(k) \in DOMAIN response.grid

\* a 5 x 5 request answered by the primary strategy without conflict: the
\* window has 25 coordinates
C18_Witness ==
  /\ PrimaryDone
  /\ errlog = {}
  /\ width = 5 /\ height = 5
  /\ Cardinality(Window) = 25

\* ------------------------------------------------------------------ C19
FallbackDone == pc = "done" /\ UseGeographic(world, tile_id, width, height)

\* the rows that hold a cell in the grid dictionary
GridRows == {grid_dict[i][1][1] : i \in 1..Len(grid_dict)}

\* the latitude bands of the finished request, as the handler builds them
RequestBands ==
  LatBuckets(SortByLat(world, SetOrder(k_ring(world, tile_id, KRingSize(width, height)), 0)),
             NumRows(Cardinality(k_ring(world, tile_id, KRingSize(width, height))), height))

\* C19: in the fallback strategy the number of latitude bands, and with it
\* the number of distinct rows of the returned grid, never exceeds the
\* requested height.
C19_RowsWithinHeight ==
  FallbackDone => Len(RequestBands) <= height /\ Cardinality(GridRows) <= height

\* ------------------------------------------------------------------ C20
\* the cells within the covering radius, and the rows the handler sorts
\* them into
RequestRing == k_ring(world, tile_id, KRingSize(width, height))

RequestRows == GeoRows(world, SetOrder(RequestRing, 0), RequestBands)

BandsOf(rows, cell) ==
  {r \in 1..Len(rows) : \E c \in 1..Len(rows[r]) : rows[r][c][1] = cell}

CoordinatesOf(cell) == {grid_dict[i][1] : i \in {j \in 1..Len(grid_dict) : grid_dict[j][2] = cell}}

\* C20: in the fallback strategy every cell within the covering radius is in
\* exactly one latitude band and at exactly one coordinate of the result, no
\* coordinate holds two cells, the centre is at (0,0) only, and the number of
\* populated coordinates is the number of cells of the ring.
C20_FallbackPlacesEachCellOnce ==
  FallbackDone =>
    /\ \A rows \in {RequestRows} : \A cell \in RequestRing : Cardinality(BandsOf(rows, cell)) = 1
    /\ \A cell \in RequestRing :
         /\ Cardinality(CoordinatesOf(cell)) = 1
         /\ \E k \in CoordinatesOf(cell) : /\ CoordKey(k) \in DOMAIN response.grid
                                           /\ response.grid[CoordKey(k)] = cell
    /\ \A i, j \in 1..Len(grid_dict) : grid_dict[i][1] = grid_dict[j][1] => i = j
    /\ CoordinatesOf(tile_id) = {<<0, 0>>}
    /\ Len(grid_dict) = Cardinality(RequestRing)
    /\ Cardinality(DOMAIN response.grid) = Cardinality(RequestRing)

\* a fallback request for a cell beside the pentagon, answered with more than
\* one row and with the pentagon among the cells
C20_Witness ==
  /\ FallbackDone
  /\ ~h3_is_pentagon(world, tile_id)
  /\ Cardinality(GridRows) > 1
  /\ \E cell \in RequestRing : h3_is_pentagon(world, cell) /\ CoordinatesOf(cell) # {}

\* ------------------------------------------------------------------ C21
\* the coordinates that hold a cell in the finished grid
Populated == {k \in DictKeys(grid_dict) : CoordKey(k) \in DOMAIN response.grid}

InBounds(b, k) ==
  b.min_row <= k[1] /\ k[1] <= b.max_row /\ b.min_col <= k[2] /\ k[2] <= b.max_col

\* C21: the bounds of a response are the minimum and maximum row and column
\* of the populated coordinates: every populated coordinate is inside them,
\* each of the four is attained by a populated coordinate, and (0,0) is
\* inside them.
C21_BoundsAreExtremes ==
  pc = "done" =>
    /\ Populated = DictKeys(grid_dict)
    /\ \A k \in Populated : InBounds(response.bounds, k)
    /\ \E k \in Populated : k[1] = response.bounds.min_row
    /\ \E k \in Populated : k[1] = response.bounds.max_row
    /\ \E k \in Populated : k[2] = response.bounds.min_col
    /\ \E k \in Populated : k[2] = response.bounds.max_col
    /\ InBounds(response.bounds, <<0, 0>>)

\* a response whose rows and columns are not symmetric around the centre
C21_Witness ==
  /\ pc = "done"
  /\ Cardinality(Populated) > 1
  /\ response.bounds.min_row # -response.bounds.max_row
  /\ response.bounds.min_col # -response.bounds.max_col

\* ------------------------------------------------------------------ C22
\* what is left of a request: the stage, the passes left, whether the next
\* pass has yet to begin, and the coordinates of the pass still to visit
Stage ==
  CASE pc = "idle" -> 4
    [] pc \in {"primary", "geographic"} -> 3
    [] pc \in {"rings", "tiles"} -> 2
    [] pc = "finish" -> 1
    [] OTHER -> 0

Remaining ==
  IF pc \in {"rings", "tiles"}
  THEN <<Stage, (Max(width, height) + 1) - ring, IF pc = "rings" THEN 1 ELSE 0,
         IF pc = "tiles" THEN (Len(items) + 1) - idx ELSE 0>>
  ELSE <<Stage, 0, 0, 0>>

LexLess(a, b) ==
  \E i \in 1..Len(a) : a[i] < b[i] /\ \A j \in 1..(i - 1) : a[j] = b[j]

PassesWithinBudget ==
  /\ pc \in {"rings", "tiles"} => ring <= Max(width, height) + 1
  /\ pc = "tiles" => ring < Max(width, height) + 1
  /\ \A i \in 1..4 : Remaining[i] >= 0

\* a step of the request brings it nearer to its end; within a pass the list
\* of coordinates to visit is the one taken when the pass began, and the
\* coordinate that is expanded is one of that list that is not marked done
StepTowardsEnd ==
  /\ LexLess(Remaining', Remaining)
  /\ (pc = "tiles" /\ pc' = "tiles") => items' = items
  /\ (pc = "tiles" /\ (grid_dict' # grid_dict \/ done_tiles' # done_tiles \/ errlog' # errlog))
       => /\ idx \in 1..Len(items)
          /\ items[idx][1] \notin done_tiles
          /\ \E k \in 1..Len(grid_dict) : grid_dict[k] = items[idx]
  /\ done_tiles \subseteq done_tiles'

\* C22: the embedding terminates: the primary strategy runs at most
\* max(width, height) + 1 passes, a pass expands only coordinates that were
\* placed when it began, and a coordinate marked done is not expanded again.
C22_EmbedTerminates == []PassesWithinBudget /\ [][StepTowardsEnd]_vars

\* the last pass of a 3 x 3 request has run through all its coordinates
C22_Witness ==
  /\ pc = "tiles"
  /\ ring = Max(width, height)
  /\ idx > Len(items)
  /\ Len(items) > 7
  /\ Cardinality(done_tiles) > 7

\* ------------------------------------------------------------------ C23
Even(c) == \E m \in (-Abs(c))..Abs(c) : c = 2 * m

\* the coordinate reached from p by the clock position P
TableStep(p, P) ==
  IF Even(p[2]) THEN VAdd(p, relative_coords_for_even_columns[P])
  ELSE VAdd(p, relative_coords_for_odd_columns[P])

\* the neighbours of the tile whose neighbours the step places
SourceNeighbors == static'[items[idx][2]].neighbor_ids

PlacedByColumnParity ==
  /\ (pc = "tiles" /\ grid_dict' # grid_dict) =>
       \A i \in (Len(grid_dict) + 1)..Len(grid_dict') :
          \E P \in DOMAIN SourceNeighbors :
             /\ SourceNeighbors[P] = grid_dict'[i][2]
             /\ grid_dict'[i][1] = TableStep(items[idx][1], P)
  /\ (pc = "tiles" /\ done_tiles' # done_tiles) =>
       \A P \in DOMAIN SourceNeighbors :
          SourceNeighbors[P] # PentagonMarker =>
             /\ DictHas(grid_dict', TableStep(items[idx][1], P))
             /\ DictGet(grid_dict', TableStep(items[idx][1], P)) = SourceNeighbors[P]
  /\ pc = "primary" =>
       \A P \in DOMAIN center_nbrs :
          center_nbrs[P] # PentagonMarker =>
             /\ DictHas(grid_dict', relative_coords_for_even_columns[P])
             /\ DictGet(grid_dict', relative_coords_for_even_columns[P]) = center_nbrs[P]

\* C23: the neighbours of the cell at (r,c) are placed with the even-column
\* table exactly when c is even and with the odd-column table exactly when c
\* is odd, negative columns included; the neighbours of the centre are
\* placed with the even table.
C23_TableByColumnParity == [][PlacedByColumnParity]_vars

\* cells in the columns -1, -2 and 1 have been expanded without conflict
C23_Witness ==
  /\ pc \in {"tiles", "rings"}
  /\ \E k \in done_tiles : k[2] = -1
  /\ \E k \in done_tiles : k[2] = -2
  /\ \E k \in done_tiles : k[2] = 1

\* ------------------------------------------------------------------ C24
\* the coordinates the tables are applied to: those of the grid
TablesInverse(p) ==
  \A P \in Positions : TableStep(TableStep(p, P), inverse_positions[P]) = p

TablesInjective(p) ==
  \A P, Q \in Positions : TableStep(p, P) = TableStep(p, Q) => P = Q

\* C24: stepping from a coordinate p by a clock position P and then from the
\* coordinate reached by the inverse position of P, each time with the table
\* of the column's parity, returns to p; and the six positions lead from p to
\* six distinct coordinates.
C24_TablesMutuallyInverse ==
  \A p \in DictKeys(grid_dict) : TablesInverse(p) /\ TablesInjective(p)

\* a grid with coordinates in even and odd columns on both sides of the
\* centre and in rows on both sides of it
C24_Witness ==
  /\ pc = "done"
  /\ {-2, -1, 1, 2} \subseteq {k[2] : k \in DictKeys(grid_dict)}
  /\ {-2, -1, 1, 2} \subseteq {k[1] : k \in DictKeys(grid_dict)}

\* ------------------------------------------------------------------ C25
\* C25: in the primary strategy no cell identifier is at two different
\* coordinates of the grid, after any number of passes.
C25_PrimaryInjective ==
  (pc \in {"rings", "tiles", "finish", "done"} /\ ~UseGeographic(world, tile_id, width, height))
    => \A i, j \in 1..Len(grid_dict) : grid_dict[i][2] = grid_dict[j][2] => i = j

\* ------------------------------------------------------------------ C26
\* the relative bearing of the neighbour the tile holds at the i-th clock
\* position of the canonical order
BearingAt(i) ==
  NeighborBearings(world, tile_id, <<tile.neighbor_ids[position_names[i]]>>,
                   RefBearing(world, tile_id))[1][2]

\* C26: the tile of a pentagon has the marker at bottom_right, the last
\* position of the canonical order, and its five neighbours, in the order of
\* their relative bearings, at bottom_middle, bottom_left, top_left,
\* top_middle and top_right, whichever direction has no neighbour.
C26_MarkerAtBottomRight ==
  (TileBuilt /\ h3_is_pentagon(world, tile_id))
    => /\ DOMAIN tile.neighbor_ids = Positions
       /\ tile.neighbor_ids["bottom_right"] = PentagonMarker
       /\ \A i \in 1..5 : tile.neighbor_ids[position_names[i]] \in k_ring(world, tile_id, 1) \ {tile_id}
       /\ \A i \in 1..5 : \A j \in (i + 1)..5 :
            tile.neighbor_ids[position_names[i]] # PentagonMarker
            /\ tile.neighbor_ids[position_names[j]] # PentagonMarker
            => BearingAt(i) < BearingAt(j)

\* a pentagon's tile where the direction without a neighbour lies between
\* the neighbours at top_left and top_middle, not after the last one
C26_Witness ==
  /\ TileBuilt
  /\ h3_is_pentagon(world, tile_id)
  /\ tile.neighbor_ids["bottom_right"] = PentagonMarker
  /\ BearingAt(4) - BearingAt(3) > (BearingAt(1) + 360) - BearingAt(5)

\* ------------------------------------------------------------ dynamic data
\* a content is None or a string; a string is the sequence of its characters
\* and the content that holds it a one-element sequence
None == <<>>
Str(s) == <<s>>

Whitespace == {" ", "\t", "\n"}

\* str.strip()
strip(s) ==
  LET solid == {i \in 1..Len(s) : s[i] \notin Whitespace}
  IN IF solid = {} THEN <<>>
     ELSE SubSeq(s, CHOOSE i \in solid : \A j \in solid : i <= j,
                    CHOOSE i \in solid : \A j \in solid : i >= j)

\* a JSON value of a visual property, with its Python type
StrValue(s) == <<"str", s>>
IntValue(n) == <<"int", n>>
FloatValue(hundredths) == <<"float", hundredths>>

\* tile.py 131-137: class VisualProperties, the defaults
VisualProperties ==
  [border_color |-> StrValue("#000000"), border_thickness |-> IntValue(1),
   border_style |-> StrValue("solid"), fill_color |-> StrValue("#FFFFFF"),
   fill_opacity |-> FloatValue(50)]

\* attributes every pydantic model object has besides its fields
ModelAttributes == {"copy", "dict", "json"}

\* the strings int() reads, with their values
IntOfStr == ("1" :> 1) @@ ("3" :> 3)

\* the field types of VisualProperties
FieldType ==
  [border_color |-> "str", border_thickness |-> "int", border_style |-> "str",
   fill_color |-> "str", fill_opacity |-> "float"]

\* VisualProperties(**data), tile.py 611-612: each value is validated
\* against the type of its field; a string that reads as an integer is taken
\* for an int field, anything else of another type is a validation error
FieldValid(name, v) ==
  \/ v[1] = FieldType[name]
  \/ FieldType[name] = "int" /\ v[1] = "str" /\ v[2] \in DOMAIN IntOfStr

ParseVisualProperties(data) ==
  [valid |-> \A name \in DOMAIN data : FieldValid(name, data[name]),
   value |-> [name \in DOMAIN data |->
                IF FieldValid(name, data[name]) /\ data[name][1] # FieldType[name]
                THEN IntValue(IntOfStr[data[name][2]])
                ELSE data[name]]]

\* tile.py 152-156: content and visual properties of a tile just constructed
NewDynamic == [content |-> None, visual_properties |-> VisualProperties]

\* tile.py 581-620, load_from_split_files: None without a static file or
\* when the dynamic file does not validate; content and visual properties
\* are those of the dynamic file of the mod when there is one
Tile_load_split(store, dyn, id, mod_name) ==
  IF id \notin DOMAIN store THEN [found |-> FALSE, data |-> NewDynamic]
  ELSE IF <<mod_name, id>> \notin DOMAIN dyn THEN [found |-> TRUE, data |-> NewDynamic]
  ELSE IF ~ParseVisualProperties(dyn[<<mod_name, id>>].visual_properties).valid
       THEN [found |-> FALSE, data |-> NewDynamic]
  ELSE [found |-> TRUE,
        data |-> [content |-> dyn[<<mod_name, id>>].content,
                  visual_properties |->
                    ParseVisualProperties(dyn[<<mod_name, id>>].visual_properties).value]]

\* the world and the cells of the requests that write dynamic data; the
\* dynamic files do not depend on the grid, so one world is enough
DynWorld == ValidWorld(FALSE, 9001, 0, 0)

DynCells == {Origin, <<MaxRes, 0, -1>>}

\* "tile = Tile.load(tile_id, mod_name); if tile is None: create it and
\* save_static()": the tile object and the static store afterwards
LoadOrCreateTile(w, store, dyn, id, mod_name, order) ==
  IF Tile_load_split(store, dyn, id, mod_name).found
  THEN [tile |-> store[id], store |-> store,
        data |-> Tile_load_split(store, dyn, id, mod_name).data]
  ELSE [tile |-> CreatedAndSaved(store, Tile__init__(w, id, order)).tile,
        store |-> CreatedAndSaved(store, Tile__init__(w, id, order)).store,
        data |-> NewDynamic]

\* tile.py 366-372: set_visual_property; setattr on the model object raises
\* ValueError for a name that is no field
hasattr(visual_properties, property_name) ==
  property_name \in DOMAIN visual_properties \cup ModelAttributes

set_visual_property(visual_properties, property_name, value) ==
  IF ~hasattr(visual_properties, property_name)
  THEN [result |-> FALSE, raised |-> FALSE, visual_properties |-> visual_properties]
  ELSE IF property_name \notin DOMAIN visual_properties
  THEN [result |-> FALSE, raised |-> TRUE, visual_properties |-> visual_properties]
  ELSE [result |-> TRUE, raised |-> FALSE,
        visual_properties |-> [visual_properties EXCEPT ![property_name] = value]]

\* "for key, value in props.items(): tile.set_visual_property(key, value)":
\* the properties after the loop, whether a call returned True, and whether
\* one raised (the loop ends there)
RECURSIVE SetVisualProperties(_, _, _)
SetVisualProperties(acc, props, i) ==
  IF i > Len(props) \/ acc.raised THEN acc
  ELSE LET r == set_visual_property(acc.visual_properties, props[i][1], props[i][2])
       IN SetVisualProperties([updated |-> acc.updated \/ r.result, raised |-> r.raised,
                               visual_properties |-> r.visual_properties], props, i + 1)

\* tile.py 450-500, save_dynamic: the dynamic file of the mod is written
\* when there is content or a visual property that is not the default, and
\* removed otherwise
has_content(data) == data.content # None /\ strip(data.content[1]) # <<>>

has_custom_visuals(data) ==
  \E prop_name \in DOMAIN data.visual_properties :
     data.visual_properties[prop_name] # VisualProperties[prop_name]

save_dynamic_keep_file(dyn, id, data, mod_name) ==
  IF has_content(data) \/ has_custom_visuals(data)
  THEN [k \in DOMAIN dyn \cup {<<mod_name, id>>} |-> IF k = <<mod_name, id>> THEN data ELSE dyn[k]]
  ELSE dyn

save_dynamic(dyn, id, data, mod_name) ==
  IF has_content(data) \/ has_custom_visuals(data)
  THEN [k \in DOMAIN dyn \cup {<<mod_name, id>>} |-> IF k = <<mod_name, id>> THEN data ELSE dyn[k]]
  ELSE [k \in DOMAIN dyn \ {<<mod_name, id>>} |-> dyn[k]]

\* tile.py 406-426, save: save_static() and save_dynamic() with its default
\* argument
Tile_save(dyn, id, data) == save_dynamic(dyn, id, data, "default")

\* ----------------------------------------- requests that write dynamic data
\* the mods, the cells, the contents and the visual properties of the requests
MaxRequests == 3   \* requests that write dynamic data, one after the other

Mods == {"default", "m1"}

Contents == {None, Str(<<" ">>), Str(<<"a">>)}

\* dicts of visual properties as a client sends them: a key that is no
\* attribute ("glow"), one that is an attribute but no field ("copy"), and
\* border_thickness as a number, as a string that reads as a number and as
\* one that does not
VisualInputs ==
  {<<>>,
   <<<<"glow", StrValue("on")>>>>,
   <<<<"copy", StrValue("on")>>>>,
   <<<<"border_thickness", IntValue(3)>>>>,
   <<<<"border_thickness", IntValue(1)>>>>,
   <<<<"border_thickness", StrValue("3")>>>>,
   <<<<"border_thickness", StrValue("wide")>>>>,
   <<<<"glow", StrValue("on")>>, <<"border_thickness", IntValue(3)>>>>,
   <<<<"border_thickness", IntValue(3)>>, <<"copy", StrValue("on")>>>>}

TileDataInputs ==
  {<<>>}
  \cup {<<<<"content", c>>>> : c \in Contents}
  \cup {<<<<"visual_properties", v>>>> :
          v \in {<<<<"border_thickness", IntValue(3)>>>>, <<<<"border_thickness", IntValue(1)>>>>,
                 <<<<"copy", StrValue("on")>>>>}}
  \cup {<<<<"content", Str(<<"a">>)>>, <<"visual_properties", <<<<"border_thickness", IntValue(3)>>>>>>>>}

InternalError(op, id, mod_name) ==
  [operation |-> op, tile_id |-> id, mod_name |-> mod_name, status_code |-> 500,
   detail |-> <<"str(e)">>]

\* api/tiles.py 86-131: PUT /api/tiles/{tile_id}
update_tile(id, mod_name, tile_data, order) ==
  /\ pc = "idle"
  /\ requests < MaxRequests
  /\ \E lc \in {LoadOrCreateTile(world, static, dynamic, id, mod_name, order)} :
     \E content \in {IF DictHas(tile_data, "content") THEN DictGet(tile_data, "content")
                     ELSE lc.data.content} :
     \E set \in {SetVisualProperties([updated |-> FALSE, raised |-> FALSE,
                                      visual_properties |-> lc.data.visual_properties],
                                     IF DictHas(tile_data, "visual_properties")
                                     THEN DictGet(tile_data, "visual_properties") ELSE <<>>, 1)} :
        /\ tile' = lc.tile
        /\ static' = lc.store
        /\ IF set.raised
           THEN /\ dynamic' = dynamic
                /\ response' = InternalError("update_tile", id, mod_name)
           ELSE /\ dynamic' = save_dynamic(dynamic, id,
                                           [content |-> content,
                                            visual_properties |-> set.visual_properties],
                                           mod_name)
                /\ response' = [operation |-> "update_tile", tile_id |-> id,
                                mod_name |-> mod_name, status_code |-> 200,
                                content |-> content,
                                visual_properties |-> set.visual_properties]
  /\ requests' = requests + 1
  /\ UNCHANGED <<parked, world, pc, tile_id, width, height, center_nbrs, grid_dict, done_tiles,
                 ring, items, idx, errlog>>

\* api/tiles.py 340-391: PUT /api/tiles/{tile_id}/visual
update_visual_properties(id, mod_name, visual_props, order) ==
  /\ pc = "idle"
  /\ requests < MaxRequests
  /\ \E lc \in {LoadOrCreateTile(world, static, dynamic, id, mod_name, order)} :
     \E set \in {SetVisualProperties([updated |-> FALSE, raised |-> FALSE,
                                      visual_properties |-> lc.data.visual_properties],
                                     visual_props, 1)} :
        /\ tile' = lc.tile
        /\ static' = lc.store
        /\ IF set.raised
           THEN /\ dynamic' = dynamic
                /\ response' = InternalError("update_visual_properties", id, mod_name)
           ELSE IF ~set.updated
           THEN /\ dynamic' = dynamic
                /\ response' = [operation |-> "update_visual_properties", tile_id |-> id,
                                mod_name |-> mod_name, status_code |-> 400,
                                detail |-> <<"No valid visual properties provided">>]
           ELSE /\ dynamic' = save_dynamic(dynamic, id,
                                           [content |-> lc.data.content,
                                            visual_properties |-> set.visual_properties],
                                           mod_name)
                /\ response' = [operation |-> "update_visual_properties", tile_id |-> id,
                                mod_name |-> mod_name, status_code |-> 200,
                                content |-> lc.data.content,
                                visual_properties |-> set.visual_properties]
  /\ requests' = requests + 1
  /\ UNCHANGED <<parked, world, pc, tile_id, width, height, center_nbrs, grid_dict, done_tiles,
                 ring, items, idx, errlog>>

\* tile.py 329-343, move_content_to: the source object saves itself, then
\* the target object does
move_content_to(dyn, source_id, source_data, target_id, target_data) ==
  Tile_save(Tile_save(dyn, source_id, [source_data EXCEPT !.content = None]),
            target_id, [target_data EXCEPT !.content = source_data.content])

\* api/tiles.py 271-337: POST /api/tiles/{tile_id}/move-content/{target_id};
\* both tiles are loaded, or created and saved, before the content moves;
\* save() rewrites the static files with what was loaded
move_content(id, target_id, mod_name, order) ==
  /\ pc = "idle"
  /\ requests < MaxRequests
  /\ \E source \in {LoadOrCreateTile(world, static, dynamic, id, mod_name, order)} :
     \E target \in {LoadOrCreateTile(world, source.store, dynamic, target_id, mod_name, order)} :
        /\ tile' = source.tile
        /\ static' = save_static(save_static(target.store, source.tile), target.tile)
        /\ dynamic' = move_content_to(dynamic, id, source.data, target_id, target.data)
        /\ response' = [operation |-> "move_content", tile_id |-> id, target_id |-> target_id,
                        mod_name |-> mod_name, status_code |-> 200,
                        source_content |-> None, target_content |-> source.data.content]
  /\ requests' = requests + 1
  /\ UNCHANGED <<parked, world, pc, tile_id, width, height, center_nbrs, grid_dict, done_tiles,
                 ring, items, idx, errlog>>

\* the static files of the cells exist, earlier requests have created them;
\* the order in which a set is enumerated matters to the static data only
InitDynamic ==
  /\ world = DynWorld
  /\ static = [id \in DynCells |-> Tile__init__(DynWorld, id, 0)]
  /\ pc = "idle"
  /\ tile_id = NoCell
  /\ tile = NoTile
  /\ width = 0
  /\ height = 0
  /\ center_nbrs = [p \in {} |-> NoCell]
  /\ grid_dict = <<>>
  /\ done_tiles = {}
  /\ ring = 0
  /\ items = <<>>
  /\ idx = 0
  /\ errlog = {}
  /\ response = NoResponse
  /\ parked = NoRequest
  /\ dynamic = EmptyDynamic
  /\ requests = 0

NextDynamic ==
  \/ \E id \in DynCells, mod_name \in Mods, tile_data \in TileDataInputs :
       update_tile(id, mod_name, tile_data, 0)
  \/ \E id \in DynCells, mod_name \in Mods, visual_props \in VisualInputs :
       update_visual_properties(id, mod_name, visual_props, 0)
  \/ \E id \in DynCells, target_id \in DynCells, mod_name \in Mods :
       move_content(id, target_id, mod_name, 0)

SpecDynamic == InitDynamic /\ [][NextDynamic]_vars

\* ------------------------------------------- claims about the dynamic data
\* content that is a string with a character that is no whitespace
NonBlank(content) ==
  content # None /\ \E i \in 1..Len(content[1]) : content[1][i] \notin Whitespace

\* what the storage holds for a tile under a mod: its dynamic file, and
\* without one the content and visual properties of a new tile
StoredData(dyn, mod_name, id) ==
  IF <<mod_name, id>> \in DOMAIN dyn THEN dyn[<<mod_name, id>>] ELSE NewDynamic

\* a request that wrote dynamic data has just been answered
Answered(operation, status_code) ==
  /\ requests' = requests + 1
  /\ response'.operation = operation
  /\ response'.status_code = status_code

EveryFileIsNeeded ==
  \A k \in DOMAIN dynamic :
     NonBlank(dynamic[k].content) \/ dynamic[k].visual_properties # VisualProperties

FileIffNeeded ==
  (Answered("update_tile", 200) \/ Answered("update_visual_properties", 200)) =>
    \A k \in {<<response'.mod_name, response'.tile_id>>} :
      /\ k \in DOMAIN dynamic' <=>
           (NonBlank(response'.content) \/ response'.visual_properties # VisualProperties)
      /\ k \in DOMAIN dynamic' =>
           dynamic'[k] = [content |-> response'.content,
                          visual_properties |-> response'.visual_properties]

\* C27: after save_dynamic for a tile under a mod, the dynamic file of the
\* tile under that mod exists if and only if the content of the tile is not
\* blank (not None and not only whitespace) or a visual property differs from
\* its default; when neither holds a file left by an earlier save is gone.
\* No file in the storage is one that save_dynamic would not write.
C27_DynamicFileIffNeeded == []EveryFileIsNeeded /\ [][FileIffNeeded]_vars

\* a content update has left whitespace content on a tile whose border
\* thickness an earlier request had set: the file is there for the border
\* thickness alone
C27_Witness ==
  /\ requests >= 2
  /\ response.operation = "update_tile"
  /\ response.status_code = 200
  /\ response.content = Str(<<" ">>)
  /\ response.visual_properties.border_thickness = IntValue(3)
  /\ <<response.mod_name, response.tile_id>> \in DOMAIN dynamic

\* the visual properties as a load reads them
Read(visual_properties) == ParseVisualProperties(visual_properties).value

MovedUnderDefaultMod ==
  (Answered("move_content", 200) /\ response'.mod_name = "default"
     /\ response'.tile_id # response'.target_id) =>
    \A S \in {response'.tile_id}, T \in {response'.target_id} :
      /\ response'.target_content = StoredData(dynamic, "default", S).content
      /\ response'.source_content = None
      /\ \A id \in {S, T} :
           Read(StoredData(dynamic', "default", id).visual_properties)
             = Read(StoredData(dynamic, "default", id).visual_properties)
      /\ Tile_load_split(static', dynamic', S, "default").found
      /\ Tile_load_split(static', dynamic', S, "default").data.content = None
      /\ Tile_load_split(static', dynamic', T, "default").found
      /\ Tile_load_split(static', dynamic', T, "default").data.content
           = response'.target_content

\* C28: after a move of content from a tile S to a different tile T under
\* the default mod has succeeded, the content of T is the content S had
\* before, the content of S is None, the visual properties of S and of T are
\* what they were, and a load of S and of T from the storage gives this state.
C28_MoveContentUnderDefaultMod == [][MovedUnderDefaultMod]_vars

OtherModsUntouched ==
  requests' = requests + 1 =>
    \A k \in DOMAIN dynamic \cup DOMAIN dynamic' :
       k[1] # response'.mod_name =>
         /\ k \in DOMAIN dynamic
         /\ k \in DOMAIN dynamic'
         /\ dynamic'[k] = dynamic[k]

UpdateStoredUnderMod ==
  (Answered("update_tile", 200) \/ Answered("update_visual_properties", 200)) =>
    \A data \in {StoredData(dynamic', response'.mod_name, response'.tile_id)} :
      /\ NonBlank(response'.content) => data.content = response'.content
      /\ data.visual_properties = response'.visual_properties

MoveStoredUnderMod ==
  (Answered("move_content", 200) /\ response'.tile_id # response'.target_id) =>
    /\ response'.target_content
         = StoredData(dynamic, response'.mod_name, response'.tile_id).content
    /\ StoredData(dynamic', response'.mod_name, response'.tile_id).content = None
    /\ NonBlank(response'.target_content) =>
         StoredData(dynamic', response'.mod_name, response'.target_id).content
           = response'.target_content

NamespacedByMod == OtherModsUntouched /\ UpdateStoredUnderMod /\ MoveStoredUnderMod

\* C29: dynamic data is kept per mod. A content update, a visual update or
\* a move of content requested for a mod reads and writes the dynamic data
\* of that mod only: what is stored for any tile under another mod is what
\* it was, and what is stored under the mod of the request shows the
\* operation.
C29_NamespacedByMod == [][NamespacedByMod]_vars

\* the entries of a request whose key names a visual property
ValidKeys(visual_props) ==
  {i \in 1..Len(visual_props) : visual_props[i][1] \in DOMAIN VisualProperties}

\* the value a request gives a visual property: that of its last entry with
\* this key
Given(visual_props, name) ==
  visual_props[CHOOSE i \in ValidKeys(visual_props) :
                 /\ visual_props[i][1] = name
                 /\ \A j \in ValidKeys(visual_props) : visual_props[j][1] = name => j <= i][2]

VisualUpdateAnswered(id, mod_name, visual_props) ==
  update_visual_properties(id, mod_name, visual_props, 0) =>
    IF ValidKeys(visual_props) = {}
    THEN /\ response'.status_code = 400
         /\ response'.detail = <<"No valid visual properties provided">>
         /\ dynamic' = dynamic
    ELSE /\ response'.status_code = 200
         /\ DOMAIN response'.visual_properties = DOMAIN VisualProperties
         /\ \A name \in DOMAIN VisualProperties :
              response'.visual_properties[name]
                = IF \E i \in ValidKeys(visual_props) : visual_props[i][1] = name
                  THEN Given(visual_props, name)
                  ELSE Read(StoredData(dynamic, mod_name, id).visual_properties)[name]
         /\ StoredData(dynamic', mod_name, id).visual_properties
              = response'.visual_properties

ValidKeysApplied ==
  \A id \in DynCells, mod_name \in Mods, visual_props \in VisualInputs :
     VisualUpdateAnswered(id, mod_name, visual_props)

\* C30: a visual update in which no key names a visual property is answered
\* with status 400, "No valid visual properties provided", and what is
\* stored for the tile stays as it was; when a key is valid the request is
\* answered with 200, the valid keys and no others are applied.
C30_ValidKeysApplied == [][ValidKeysApplied]_vars

====
